---------------------------- MODULE Spec2Model ----------------------------
(***************************************************************************)
(* LeetDojo: the question generation and answer reconciliation pipeline.   *)
(*                                                                         *)
(* The machines of this module, each with its own specification, share   *)
(* the variables:                                                          *)
(*   SpecResolve  the answer resolution and grading of show_forge          *)
(*                (src/app.py 315-349), applied to drawn inputs;           *)
(*   SpecParse    parse_generated_question (src/utils.py 369-437),         *)
(*                applied to drawn texts;                                  *)
(*   SpecForge    the views of the app (src/app.py 62-208, 553-708) and    *)
(*                the question generation step of the forge view           *)
(*                (src/app.py 281-291, src/utils.py 221-308);              *)
(*   SpecSession  a session of the forge view (src/app.py 247-448);        *)
(*   the others   the functions of utils.py on the record files, the       *)
(*                saved-questions view and the timed challenge.            *)
(* An action of a view is one run of the script: it ends when the view     *)
(* returns or at st.rerun(), after which the next run shows the view.      *)
(*                                                                         *)
(* A Python str is a sequence of one-character strings: "C." is <<"C",".">>*)
(* Python's None is the value None below, which is no such sequence.       *)
(***************************************************************************)
EXTENDS Integers, Sequences, FiniteSets, TLC

VARIABLES
    \* answer resolution (show_forge, graded branch)
    rpc,                      \* "input" | "resolved" | "graded"
    options,                  \* current_question['options']
    api_correct_answer,       \* current_question['correct_answer']
    user_answer,              \* st.session_state.user_answer
    correct_answer_full_text, \* the resolved option, or None
    correct_letter,           \* the local of line 327, or None when not set
    resolve_raised,           \* an exception left the resolution block
    is_correct,               \* user_answer == correct_answer_full_text
    user_index,               \* the position of user_answer in options, or NoIndex
    correct_index,            \* the position of the resolved answer, or NoIndex
    formatted_options,        \* the options as the graded view shows them
    \* parse_generated_question
    ppc,                      \* "input" | "parsed"
    text,                     \* the generated text as text.split('\n'), or None
    question_data,            \* what parse_generated_question returned
    parse_raised,             \* an exception left parse_generated_question
    \* the app's session state (src/app.py 23-50) and the forge view
    current_view,             \* st.session_state.current_view
    selected_subtopic,        \* st.session_state.selected_subtopic, or "None"
    current_question_index,   \* st.session_state.current_question_index
    questions,                \* st.session_state.questions
    question_submitted,       \* st.session_state.question_submitted
    subtopic_completed,       \* st.session_state.subtopic_completed
    question_tracked,         \* the keys of st.session_state.question_tracked
    forge_screen,             \* what the last run of the script left on screen,
                              \* "rerun" when it ended with st.rerun()
    gen_env,                  \* the environment of the last generation call
    gen_result,               \* what the last generation call did
    \* the record files (src/utils.py 8-117) and the clock
    user_stats_file,          \* user_stats.json
    user_progress_file,       \* user_progress.json
    saved_questions_file,     \* saved_questions.json
    performance_analytics_file, \* performance_analytics.json
    now,                      \* datetime.now(), in ticks
    ncalls,                   \* the calls made one at a time (Call) so far
    last_call,                \* the last of them: its name, arguments and outcome
    \* the rest of the session state, and the record of a forge session
    selected_class,           \* st.session_state.selected_class, or "None"
    selected_subject,         \* st.session_state.selected_subject, or "None"
    selected_chapter,         \* st.session_state.selected_chapter, or "None"
    generated,                \* the questions appended to the list so far
    question_ids,             \* for each entry of questions, its number among them
    submitted_ids,            \* the numbers of the questions submitted
    stats_calls,              \* per question, the calls of update_stats for it
    track_calls,              \* per question, the calls of track_question_attempt
    saved_view,               \* what show_saved_questions put on screen
    \* the timed challenge (src/app.py 45-50, 504-550)
    challenge_mode,           \* st.session_state.challenge_mode
    challenge_start_time,     \* st.session_state.challenge_start_time, in ticks
    challenge_time_limit,     \* st.session_state.challenge_time_limit, in seconds
    challenge_num_questions,  \* st.session_state.challenge_num_questions, 0 if unset
    challenge_subtopics,      \* st.session_state.challenge_subtopics, <<>> if unset
    challenge_subject,        \* st.session_state.challenge_subject, "None" if unset
    challenge_class,          \* st.session_state.challenge_class, "None" if unset
    timer_display             \* the remaining seconds the timer of lines 227-232
                              \* shows, NoTime when no timer is on screen

resolveVars == <<rpc, options, api_correct_answer, user_answer,
                 correct_answer_full_text, correct_letter, resolve_raised,
                 is_correct, user_index, correct_index, formatted_options>>
parseVars == <<ppc, text, question_data, parse_raised>>
forgeVars == <<current_view, selected_subtopic, current_question_index, questions,
               question_submitted, subtopic_completed, question_tracked,
               forge_screen, gen_env, gen_result>>
storeVars == <<user_stats_file, user_progress_file, saved_questions_file,
               performance_analytics_file, now, ncalls, last_call>>
challengeVars == <<challenge_mode, challenge_start_time, challenge_time_limit,
                   challenge_num_questions, challenge_subtopics, challenge_subject,
                   challenge_class, timer_display>>
sessionVars == <<selected_class, selected_subject, selected_chapter, generated,
                 question_ids, submitted_ids, stats_calls, track_calls, saved_view,
                 challengeVars>>
vars == <<resolveVars, parseVars, forgeVars, storeVars, sessionVars>>

\* what a run that only changes the view leaves as it is
navUnchanged == <<selected_subtopic, current_question_index, questions,
                  question_submitted, subtopic_completed, question_tracked,
                  gen_env, gen_result, resolveVars, parseVars, storeVars, sessionVars>>

---------------------------------------------------------------------------
(* Python values and str methods *)

None == <<"None">>

LowerLetters ==
    <<"a","b","c","d","e","f","g","h","i","j","k","l","m",
      "n","o","p","q","r","s","t","u","v","w","x","y","z">>

UpperLetters ==
    <<"A","B","C","D","E","F","G","H","I","J","K","L","M",
      "N","O","P","Q","R","S","T","U","V","W","X","Y","Z">>

IsLower(c) == \E i \in DOMAIN LowerLetters : LowerLetters[i] = c
IsUpper(c) == \E i \in DOMAIN UpperLetters : UpperLetters[i] = c

LetterIndex(letters, c) == CHOOSE i \in DOMAIN letters : letters[i] = c

\* ord(c) of the characters the inputs are made of
Ord(c) ==
    IF IsUpper(c) THEN 64 + LetterIndex(UpperLetters, c)
    ELSE IF IsLower(c) THEN 96 + LetterIndex(LowerLetters, c)
    ELSE CASE c = " " -> 32
           [] c = "(" -> 40
           [] c = ")" -> 41
           [] c = "." -> 46
           [] c = "1" -> 49
           [] c = ":" -> 58
           [] c = "?" -> 63

UpperChar(c) == IF IsLower(c) THEN UpperLetters[LetterIndex(LowerLetters, c)] ELSE c

\* str.upper()
Upper(s) == [i \in DOMAIN s |-> UpperChar(s[i])]

IsSpace(c) == c = " "

RECURSIVE LStrip(_)
LStrip(s) == IF s # <<>> /\ IsSpace(Head(s)) THEN LStrip(Tail(s)) ELSE s

RECURSIVE RStrip(_)
RStrip(s) ==
    IF s # <<>> /\ IsSpace(s[Len(s)]) THEN RStrip(SubSeq(s, 1, Len(s) - 1)) ELSE s

\* str.strip()
Strip(s) == RStrip(LStrip(s))

\* str.startswith(prefix)
StartsWith(s, prefix) ==
    /\ Len(prefix) <= Len(s)
    /\ SubSeq(s, 1, Len(prefix)) = prefix

\* x in list
Contains(list, x) == \E i \in DOMAIN list : list[i] = x

\* every str over alphabet of length at most n
RECURSIVE StringsUpTo(_, _)
StringsUpTo(alphabet, n) ==
    IF n = 0 THEN {<<>>}
    ELSE LET shorter == StringsUpTo(alphabet, n - 1)
         IN  shorter \cup {Append(s, c) : s \in shorter, c \in alphabet}

---------------------------------------------------------------------------
(* Answer resolution and grading: show_forge, src/app.py 315-349 *)

NumOptions == 4

\* the smallest index of a non-empty set of indices (the for loop breaks at
\* the first hit)
FirstIndex(S) == CHOOSE i \in S : \A j \in S : i <= j

\* Line 327: api_correct_answer.strip().upper()[0]; raised on the empty str
\* (IndexError)
CorrectLetter(raw) ==
    LET stripped == Upper(Strip(raw))
    IN  IF stripped = <<>>
        THEN [raised |-> TRUE, value |-> None]
        ELSE [raised |-> FALSE, value |-> <<stripped[1]>>]

\* Lines 330-334: the options whose text, stripped and uppercased, starts
\* with the letter
PrefixedBy(opts, letter) ==
    {i \in DOMAIN opts : StartsWith(Upper(Strip(opts[i])), letter)}

\* PositionalOption with the index clamped into the list instead of
\* range-checked
PositionalOption_Clamped(opts, letter) ==
    LET correct_idx == Ord(letter[1]) - Ord("A")
    IN  IF 0 <= correct_idx
        THEN opts[IF correct_idx < Len(opts) THEN correct_idx + 1 ELSE Len(opts)]
        ELSE None

\* Lines 336-339: the letter as a position, A=0, B=1, ...
PositionalOption(opts, letter) ==
    LET correct_idx == Ord(letter[1]) - Ord("A")
    IN  IF 0 <= correct_idx /\ correct_idx < Len(opts)
        THEN opts[correct_idx + 1]
        ELSE None

\* OptionForLetter with the two cases in the other order: the position
\* first, the prefix scan only when the position is out of range
OptionForLetter_PositionFirst(opts, letter) ==
    IF PositionalOption(opts, letter) # None
    THEN PositionalOption(opts, letter)
    ELSE IF PrefixedBy(opts, letter) # {}
    THEN opts[FirstIndex(PrefixedBy(opts, letter))]
    ELSE None

\* Lines 329-339: the prefix scan first, the position only when the scan
\* found nothing
OptionForLetter(opts, letter) ==
    IF PrefixedBy(opts, letter) # {}
    THEN opts[FirstIndex(PrefixedBy(opts, letter))]
    ELSE PositionalOption(opts, letter)

\* ResolveAnswer without the exact-match step of lines 322-323
ResolveAnswer_NoExactMatch(opts, raw) ==
    LET l == CorrectLetter(raw)
    IN  IF l.raised
        THEN [raised |-> FALSE, letter |-> None, value |-> None]
        ELSE [raised |-> FALSE, letter |-> l.value,
              value |-> OptionForLetter(opts, l.value)]

\* ResolveAnswer without the try/except of lines 326 and 340-342: the
\* IndexError of line 327 leaves the block
ResolveAnswer_NoExcept(opts, raw) ==
    IF Contains(opts, raw)
    THEN [raised |-> FALSE, letter |-> None, value |-> raw]
    ELSE LET l == CorrectLetter(raw)
         IN  IF l.raised
             THEN [raised |-> TRUE, letter |-> None, value |-> None]
             ELSE [raised |-> FALSE, letter |-> l.value,
                   value |-> OptionForLetter(opts, l.value)]

\* Lines 321-342: exact match first, then the try block, whose except
\* clause swallows every exception and leaves None.
\* letter: correct_letter when the block set it; raised: an exception left
\* the resolution.
ResolveAnswer(opts, raw) ==
    IF Contains(opts, raw)
    THEN [raised |-> FALSE, letter |-> None, value |-> raw]
    ELSE LET l == CorrectLetter(raw)
         IN  IF l.raised
             THEN [raised |-> FALSE, letter |-> None, value |-> None]
             ELSE [raised |-> FALSE, letter |-> l.value,
                   value |-> OptionForLetter(opts, l.value)]

\* Line 345: Python's ==, for which None == None is True
IsCorrect(answer, resolved) == answer = resolved

\* The None of lines 348-349, where an index is expected: no position of a
\* list
NoIndex == -1

\* list.index(x) if x in list else None, lines 348-349
IndexOrNone(list, x) ==
    IF Contains(list, x)
    THEN FirstIndex({i \in DOMAIN list : list[i] = x}) - 1
    ELSE NoIndex

\* FormatOption testing the correct index before the selected one
FormatOption_CorrectFirst(option, idx, user_idx, correct_idx) ==
    IF idx = correct_idx
    THEN [prefix |-> "check", option |-> option, suffix |-> " (Correct Answer)"]
    ELSE IF idx = user_idx
    THEN [prefix |-> "cross", option |-> option, suffix |-> " (Your Answer)"]
    ELSE [prefix |-> "", option |-> option, suffix |-> ""]

\* format_option(option, idx), lines 351-359, with the two indices it closes
\* over; prefix "check" is the check mark and "cross" the cross mark
FormatOption(option, idx, user_idx, correct_idx) ==
    IF idx = user_idx /\ idx = correct_idx
    THEN [prefix |-> "check", option |-> option,
          suffix |-> " (Your Answer - Correct)"]
    ELSE IF idx = user_idx /\ idx # correct_idx
    THEN [prefix |-> "cross", option |-> option, suffix |-> " (Your Answer)"]
    ELSE IF idx = correct_idx
    THEN [prefix |-> "check", option |-> option, suffix |-> " (Correct Answer)"]
    ELSE [prefix |-> "", option |-> option, suffix |-> ""]

\* Line 361: [format_option(opt, i) for i, opt in enumerate(options)]
FormattedOptions(opts, user_idx, correct_idx) ==
    [k \in DOMAIN opts |-> FormatOption(opts[k], k - 1, user_idx, correct_idx)]

LetterAnswers == {<<"A">>, <<"B">>, <<"C">>, <<"D">>}

\* Inputs of the resolution
OptTexts ==
    { <<"c">>,            \* a single lowercase letter
      <<"y", "?">>,       \* plain text
      <<"C", ".">>,       \* a labelled option, "C."
      <<" ", "a", "x">>,  \* a word starting with a, after a blank
      <<"Z">> }           \* a single letter past D

RawAlphabet == {"A", "C", "Z", "c", "(", " "}

MaxRawLen == 2

\* every str over RawAlphabet up to MaxRawLen, the four letters, and the
\* option texts themselves
RawAnswers == StringsUpTo(RawAlphabet, MaxRawLen) \cup LetterAnswers \cup OptTexts

OptionLists == [1..NumOptions -> OptTexts]

parseIdle ==
    /\ ppc = "idle"
    /\ text = <<>>
    /\ question_data = [kind |-> "None"]
    /\ parse_raised = FALSE

NoEnv == [secret |-> FALSE, library |-> FALSE, provider |-> "none",
          response_text |-> <<>>, explanation |-> "none"]

NoCall == [raised |-> FALSE, exception |-> "none", value |-> [kind |-> "None"]]

\* The None of line 48, where a time is expected; no timer on screen
NoTime == -1

\* Lines 45-50: no challenge started
challengeIdle ==
    /\ challenge_mode = FALSE
    /\ challenge_start_time = NoTime
    /\ challenge_time_limit = 300
    /\ challenge_num_questions = 0
    /\ challenge_subtopics = <<>>
    /\ challenge_subject = "None"
    /\ challenge_class = "None"
    /\ timer_display = NoTime

forgeIdle ==
    /\ current_view = "idle"
    /\ selected_subtopic = "None"
    /\ current_question_index = 0
    /\ questions = <<>>
    /\ question_submitted = FALSE
    /\ subtopic_completed = FALSE
    /\ question_tracked = {}
    /\ forge_screen = "none"
    /\ gen_env = NoEnv
    /\ gen_result = NoCall
    /\ selected_class = "None"
    /\ selected_subject = "None"
    /\ selected_chapter = "None"
    /\ generated = 0
    /\ question_ids = <<>>
    /\ submitted_ids = {}
    /\ stats_calls = <<>>
    /\ track_calls = <<>>
    /\ saved_view = <<>>
    /\ challengeIdle

\* a file that does not exist, and one that holds no JSON
Missing == [file |-> "missing"]
Corrupt == [file |-> "corrupt"]

\* a file holding the JSON value data
File(data) == [file |-> "ok", data |-> data]

NoStoreCall == [fn |-> "none", args |-> <<>>, raised |-> FALSE, exception |-> "none",
                value |-> None]

storeIdle ==
    /\ user_stats_file = Missing
    /\ user_progress_file = Missing
    /\ saved_questions_file = Missing
    /\ performance_analytics_file = Missing
    /\ now = 0
    /\ ncalls = 0
    /\ last_call = NoStoreCall

InitResolve ==
    /\ forgeIdle
    /\ storeIdle
    /\ rpc = "input"
    /\ options \in OptionLists
    /\ api_correct_answer \in RawAnswers
    /\ user_answer = None
    /\ correct_answer_full_text = None
    /\ correct_letter = None
    /\ resolve_raised = FALSE
    /\ is_correct = FALSE
    /\ user_index = NoIndex
    /\ correct_index = NoIndex
    /\ formatted_options = <<>>
    /\ parseIdle

\* Lines 321-342 of a graded run
Resolve ==
    /\ rpc = "input"
    /\ LET r == ResolveAnswer(options, api_correct_answer)
       IN  /\ correct_answer_full_text' = r.value
           /\ correct_letter' = r.letter
           /\ resolve_raised' = r.raised
    /\ rpc' = "resolved"
    /\ UNCHANGED <<options, api_correct_answer, user_answer, is_correct, user_index,
                   correct_index, formatted_options, parseVars, forgeVars,
                   storeVars, sessionVars>>

\* Lines 345-361, for a stored answer: an option the radio returned
\* (line 303), or None (lines 38 and 420)
Grade ==
    /\ rpc = "resolved"
    /\ ~resolve_raised
    /\ \E a \in {options[i] : i \in DOMAIN options} \cup {None} :
          /\ user_answer' = a
          /\ is_correct' = IsCorrect(a, correct_answer_full_text)
          /\ user_index' = IndexOrNone(options, a)
          /\ correct_index' = IndexOrNone(options, correct_answer_full_text)
          /\ formatted_options' =
                FormattedOptions(options, IndexOrNone(options, a),
                                 IndexOrNone(options, correct_answer_full_text))
    /\ rpc' = "graded"
    /\ UNCHANGED <<options, api_correct_answer, correct_answer_full_text,
                   correct_letter, resolve_raised, parseVars, forgeVars, storeVars, sessionVars>>

NextResolve == Resolve \/ Grade

SpecResolve == InitResolve /\ [][NextResolve]_vars

---------------------------------------------------------------------------
(* parse_generated_question: src/utils.py 369-437 *)

QuestionMarkers == {<<"Q", "u", "e", "s", "t", "i", "o", "n", ":">>, <<"Q", ":">>}

AnswerMarkers ==
    {<<"C", "o", "r", "r", "e", "c", "t", " ", "A", "n", "s", "w", "e", "r", ":">>,
     <<"A", "n", "s", "w", "e", "r", ":">>,
     <<"C", "o", "r", "r", "e", "c", "t", ":">>}

ExplanationMarkers ==
    {<<"E", "x", "p", "l", "a", "n", "a", "t", "i", "o", "n", ":">>,
     <<"S", "o", "l", "u", "t", "i", "o", "n", ":">>}

\* line.startswith((m1, m2, ...))
StartsWithAny(line, markers) == \E m \in markers : StartsWith(line, m)

\* re.match(r'^[A-D][.\):]', line)
IsOptionLine(line) ==
    /\ Len(line) >= 2
    /\ line[1] \in {"A", "B", "C", "D"}
    /\ line[2] \in {".", ")", ":"}

\* AfterColon keeping the whole line, marker included
AfterColon_WholeLine(line) == Strip(line)

\* line.split(':', 1)[1].strip() if ':' in line else ""
AfterColon(line) ==
    LET colons == {i \in DOMAIN line : line[i] = ":"}
    IN  IF colons = {} THEN <<>>
        ELSE Strip(SubSeq(line, FirstIndex(colons) + 1, Len(line)))

\* AnswerLetter searching answer_text as written, without upper()
AnswerLetter_CaseSensitive(answer_text) ==
    LET hits == {i \in DOMAIN answer_text : answer_text[i] \in {"A", "B", "C", "D"}}
    IN  IF hits = {} THEN <<>> ELSE <<answer_text[FirstIndex(hits)]>>

\* re.search(r'[A-D]', answer_text.upper()): the match as a str, <<>> when
\* there is none
AnswerLetter(answer_text) ==
    LET up == Upper(answer_text)
        hits == {i \in DOMAIN up : up[i] \in {"A", "B", "C", "D"}}
    IN  IF hits = {} THEN <<>> ELSE <<up[FirstIndex(hits)]>>

\* re.split(r'^[A-D][.\):]\s*', opt)[-1].strip() of a collected option line
OptionText(opt) ==
    IF IsOptionLine(opt) THEN Strip(SubSeq(opt, 3, Len(opt))) ELSE Strip(opt)

\* The locals of lines 379-384
ParserStart ==
    [question_text |-> <<>>, options |-> <<>>, correct_answer |-> <<>>,
     explanation |-> <<>>, current_section |-> "None"]

\* One pass of the loop body, lines 388-417
ParseLine(st, raw_line) ==
    LET line == Strip(raw_line)
    IN  IF StartsWithAny(line, QuestionMarkers)
        THEN [st EXCEPT !.current_section = "question",
                        !.question_text = AfterColon(line)]
        ELSE IF IsOptionLine(line)
        THEN [st EXCEPT !.current_section = "options",
                        !.options = Append(@, line)]
        ELSE IF StartsWithAny(line, AnswerMarkers)
        THEN [st EXCEPT !.current_section = "answer",
                        !.correct_answer =
                            IF AnswerLetter(AfterColon(line)) # <<>>
                            THEN AnswerLetter(AfterColon(line)) ELSE @]
        ELSE IF StartsWithAny(line, ExplanationMarkers)
        THEN [st EXCEPT !.current_section = "explanation",
                        !.explanation = AfterColon(line)]
        ELSE IF st.current_section = "question" /\ line # <<>>
        THEN [st EXCEPT !.question_text = @ \o <<" ">> \o line]
        ELSE IF st.current_section = "explanation" /\ line # <<>>
        THEN [st EXCEPT !.explanation = @ \o <<" ">> \o line]
        ELSE st

\* The loop of lines 387-417 over the first n lines
RECURSIVE ParseLines(_, _)
ParseLines(lines, n) ==
    IF n = 0 THEN ParserStart ELSE ParseLine(ParseLines(lines, n - 1), lines[n])

\* Validate accepting four options or more
Validate_AtLeastFour(st, subtopic_name) ==
    IF st.question_text # <<>> /\ Len(st.options) >= NumOptions /\ st.correct_answer # <<>>
    THEN [kind |-> "question",
          question_text |-> Strip(st.question_text),
          options |-> [i \in DOMAIN st.options |-> OptionText(st.options[i])],
          correct_answer |-> Strip(st.correct_answer),
          subtopic |-> subtopic_name]
    ELSE [kind |-> "None"]

\* Lines 422-433: the validation and the record built
Validate(st, subtopic_name) ==
    IF st.question_text # <<>> /\ Len(st.options) = NumOptions /\ st.correct_answer # <<>>
    THEN [kind |-> "question",
          question_text |-> Strip(st.question_text),
          options |-> [i \in DOMAIN st.options |-> OptionText(st.options[i])],
          correct_answer |-> Strip(st.correct_answer),
          subtopic |-> subtopic_name]
    ELSE [kind |-> "None"]

\* a text argument that is no str
NoText == <<None>>

\* Lines 376-437. A text that is no str has no split: the AttributeError
\* of line 378 is caught at line 435 and None returned.
ParseGeneratedQuestion(t, subtopic_name) ==
    IF t = NoText
    THEN [raised |-> FALSE, value |-> [kind |-> "None"]]
    ELSE [raised |-> FALSE, value |-> Validate(ParseLines(t, Len(t)), subtopic_name)]


\* Inputs of the parser: every text of at most MaxLines lines of LinePool,
\* every well-formed block, well-formed blocks with one line of ExtraLines
\* added anywhere or put in the place of a line, and a text that is no str
LinePool ==
    { <<"Q", ":", " ", "x">>,             \* "Q: x", a question line
      <<"Q", ":">>,                       \* "Q:", a question line without text
      <<"x">>,                            \* "x", a line of no kind
      <<" ", "B", ")", " ", "y">>,        \* " B) y", an option line
      <<"A", "n", "s", "w", "e", "r", ":", " ", "b">> } \* "Answer: b"

ExtraLines ==
    LinePool \cup
    { <<"A", "n", "s", "w", "e", "r", ":", " ", "x">>,  \* "Answer: x", no letter A-D
      <<"A", "n", "s", "w", "e", "r", ":", " ", "x", "d", "B">>,
                                        \* "Answer: xdB", d before B
      <<"E", "x", "p", "l", "a", "n", "a", "t", "i", "o", "n", ":", " ", "x">>,
                                        \* "Explanation: x"
      <<>> }                            \* an empty line

MaxLines == 6

OptionLabels == <<"A", "B", "C", "D">>

\* "Question: x" or "Q: x"; "A. t1" ... "D. t4" with one of the separators;
\* "<marker> L"
WellFormedBlock(q, sep, ts, m, l) ==
    <<q \o <<" ", "x">>>>
        \o [i \in 1..NumOptions |-> <<OptionLabels[i], sep, " ">> \o ts[i]]
        \o <<m \o <<" ">> \o l>>

\* the block with one more line put after its first k lines
InsertAt(block, k, line) ==
    SubSeq(block, 1, k) \o <<line>> \o SubSeq(block, k + 1, Len(block))

\* the block with its k-th line replaced
ReplaceAt(block, k, line) == [block EXCEPT ![k] = line]

\* the option texts of the blocks that get one more line
PlainOptions == <<<<"c">>, <<"y", "?">>, <<"C", ".">>, <<"Z">>>>

Subtopic == "Kinematics"

resolveIdle ==
    /\ rpc = "idle"
    /\ options = <<>>
    /\ api_correct_answer = <<>>
    /\ user_answer = None
    /\ correct_answer_full_text = None
    /\ correct_letter = None
    /\ resolve_raised = FALSE
    /\ is_correct = FALSE
    /\ user_index = NoIndex
    /\ correct_index = NoIndex
    /\ formatted_options = <<>>

InitParse ==
    /\ forgeIdle
    /\ storeIdle
    /\ ppc = "input"
    /\ \/ \E n \in 0..MaxLines : text \in [1..n -> LinePool]
       \/ \E q \in QuestionMarkers, sep \in {".", ")", ":"}, ts \in OptionLists,
             m \in AnswerMarkers, l \in LetterAnswers :
                text = WellFormedBlock(q, sep, ts, m, l)
       \/ \E q \in QuestionMarkers, sep \in {".", ")", ":"}, m \in AnswerMarkers,
             l \in LetterAnswers, k \in 0..(NumOptions + 2), extra \in ExtraLines :
                \/ text = InsertAt(WellFormedBlock(q, sep, PlainOptions, m, l), k, extra)
                \/ /\ k >= 1
                   /\ text = ReplaceAt(WellFormedBlock(q, sep, PlainOptions, m, l), k, extra)
       \/ text = NoText
    /\ question_data = [kind |-> "None"]
    /\ parse_raised = FALSE
    /\ resolveIdle

\* One call of parse_generated_question(text, subtopic_name)
Parse ==
    /\ ppc = "input"
    /\ LET r == ParseGeneratedQuestion(text, Subtopic)
       IN  /\ question_data' = r.value
           /\ parse_raised' = r.raised
    /\ ppc' = "parsed"
    /\ UNCHANGED <<text, resolveVars, forgeVars, storeVars, sessionVars>>

NextParse == Parse

SpecParse == InitParse /\ [][NextParse]_vars

---------------------------------------------------------------------------
(* The record files and the functions that read and write them:
   src/utils.py 8-219.  A JSON object is a function from its keys, {} the
   function with no key, a JSON list a sequence. *)

\* {} and []
EmptyDict == <<>>

\* key in d
HasKey(d, key) == key \in DOMAIN d

\* d after d[key] = value
SetKey(d, key, value) ==
    [k \in DOMAIN d \cup {key} |-> IF k = key THEN value ELSE d[k]]

\* The clock counts ticks; a day has TicksPerDay of them.
TicksPerDay == 2

\* datetime.now().strftime("%Y-%m-%d"): the calendar day of an instant
StrfDate(ts) == ts \div TicksPerDay

\* datetime.strptime(date, "%Y-%m-%d"): the instant the day begins
StrpDate(date) == date * TicksPerDay

\* (a - b).days of two instants
TimedeltaDays(a, b) == (a - b) \div TicksPerDay

\* the outcome of a call: the exception raised or the value returned, and
\* the files as the call left them
CallRaises(exc, files) ==
    [raised |-> TRUE, exception |-> exc, value |-> None, files |-> files]

CallReturns(v, files) ==
    [raised |-> FALSE, exception |-> "none", value |-> v, files |-> files]

\* the four files as one record
Files ==
    [user_stats |-> user_stats_file, user_progress |-> user_progress_file,
     saved_questions |-> saved_questions_file,
     performance_analytics |-> performance_analytics_file]

\* Lines 13-20
DefaultStats(ts) ==
    [username |-> "GURU", xp |-> 0, rank |-> "Artisan", daily_streak |-> 0,
     last_active_date |-> StrfDate(ts), heatmap_data |-> EmptyDict]

\* Lines 25-28
DefaultProgress == [completed_subtopics |-> <<>>, total_subtopics_practiced |-> 0]

\* Lines 37-42 and 96-101
DefaultAnalytics ==
    [question_history |-> <<>>, subtopic_stats |-> EmptyDict,
     chapter_stats |-> EmptyDict, subject_stats |-> EmptyDict]

\* initialize_json_files, lines 8-43: every file that does not exist is
\* written with its default
InitializeJsonFiles(files, ts) ==
    CallReturns(None,
        [user_stats |->
            IF files.user_stats = Missing THEN File(DefaultStats(ts))
            ELSE files.user_stats,
         user_progress |->
            IF files.user_progress = Missing THEN File(DefaultProgress)
            ELSE files.user_progress,
         saved_questions |->
            IF files.saved_questions = Missing THEN File(<<>>)
            ELSE files.saved_questions,
         performance_analytics |->
            IF files.performance_analytics = Missing THEN File(DefaultAnalytics)
            ELSE files.performance_analytics])

\* The read shared by load_user_stats, load_user_progress and
\* load_saved_questions (lines 54-76): only FileNotFoundError is caught
LoadOr(f, empty) ==
    IF f = Missing THEN [raised |-> FALSE, exception |-> "none", value |-> empty]
    ELSE IF f = Corrupt
    THEN [raised |-> TRUE, exception |-> "JSONDecodeError", value |-> None]
    ELSE [raised |-> FALSE, exception |-> "none", value |-> f.data]

\* load_user_stats, lines 54-60
LoadUserStats(f) == LoadOr(f, EmptyDict)

\* load_user_progress, lines 62-68
LoadUserProgress(f) == LoadOr(f, EmptyDict)

\* load_saved_questions, lines 70-76
LoadSavedQuestions(f) == LoadOr(f, <<>>)

\* load_performance_analytics, lines 93-112: the default structure, updated
\* with the keys of the file when it holds an object
LoadPerformanceAnalytics(f) ==
    IF f = Missing \/ f = Corrupt
    THEN [raised |-> FALSE, exception |-> "none", value |-> DefaultAnalytics]
    ELSE [raised |-> FALSE, exception |-> "none",
          value |-> [k \in DOMAIN DefaultAnalytics \cup DOMAIN f.data |->
                        IF k \in DOMAIN f.data THEN f.data[k] ELSE DefaultAnalytics[k]]]

\* XpGain giving nothing for a wrong answer
XpGain_CorrectOnly(correct) == IF correct THEN 10 ELSE 0

\* Lines 124-127
XpGain(correct) == IF correct THEN 10 ELSE 5

\* HeatmapAfter starting every day's count again at each call
HeatmapAfter_SetToOne(heatmap_data, today) == SetKey(heatmap_data, today, 1)

\* Lines 131-134
HeatmapAfter(heatmap_data, today) ==
    IF HasKey(heatmap_data, today)
    THEN SetKey(heatmap_data, today, heatmap_data[today] + 1)
    ELSE SetKey(heatmap_data, today, 1)

\* Lines 137-140: (current_date - last_active).days
DaysSince(last_active_date, ts) == TimedeltaDays(ts, StrpDate(last_active_date))

\* Lines 140-146
DailyStreak(daily_streak, days) ==
    IF days = 1 THEN daily_streak + 1
    ELSE IF days > 1 THEN 1
    ELSE daily_streak

\* update_stats(is_correct), lines 119-149.  The clock is read twice: ts is
\* the instant of line 130, which gives today, and current_ts that of line
\* 138, which the streak is computed from.  The first subscript,
\* stats['xp'], raises KeyError on {}.
UpdateStats(files, correct, ts, current_ts) ==
    LET loaded == LoadUserStats(files.user_stats)
    IN  IF loaded.raised THEN CallRaises(loaded.exception, files)
        ELSE IF ~HasKey(loaded.value, "xp") THEN CallRaises("KeyError", files)
        ELSE LET stats == loaded.value
                 today == StrfDate(ts)
                 days == DaysSince(stats.last_active_date, current_ts)
             IN  CallReturns(None,
                    [files EXCEPT !.user_stats =
                        File([stats EXCEPT
                                !.xp = @ + XpGain(correct),
                                !.heatmap_data = HeatmapAfter(@, today),
                                !.daily_streak = DailyStreak(@, days),
                                !.last_active_date = today])])

\* BumpKey counting the attempt only when the key is new
BumpKey_FirstOnly(stats, key, correct) ==
    IF HasKey(stats, key) THEN stats
    ELSE SetKey(stats, key,
                [correct |-> IF correct THEN 1 ELSE 0, total |-> 1])

\* Lines 167-173, 176-181, 185-190: the counters of one key
BumpKey(stats, key, correct) ==
    LET entry == IF HasKey(stats, key) THEN stats[key]
                 ELSE [correct |-> 0, total |-> 0]
    IN  SetKey(stats, key,
               [correct |-> entry.correct + (IF correct THEN 1 ELSE 0),
                total |-> entry.total + 1])

\* Line 184: f"{class_level}_{subject}"
SubjectKey(class_level, subject) == <<class_level, "_", subject>>

\* track_question_attempt(...) at the instant ts, lines 151-192
TrackQuestionAttempt(files, subtopic, chapter, subject, class_level, correct, ts) ==
    LET analytics == LoadPerformanceAnalytics(files.performance_analytics).value
        attempt == [timestamp |-> ts, subtopic |-> subtopic, chapter |-> chapter,
                    subject |-> subject, class |-> class_level,
                    correct |-> correct, difficulty |-> "Medium"]
    IN  CallReturns(None,
           [files EXCEPT !.performance_analytics =
               File([analytics EXCEPT
                       !.question_history = Append(@, attempt),
                       !.subtopic_stats = BumpKey(@, subtopic, correct),
                       !.chapter_stats = BumpKey(@, chapter, correct),
                       !.subject_stats =
                           BumpKey(@, SubjectKey(class_level, subject), correct)])])

\* UpdateProgress appending the name whether or not it is there
UpdateProgress_AlwaysAppend(files, subtopic_name) ==
    LET loaded == LoadUserProgress(files.user_progress)
    IN  IF loaded.raised THEN CallRaises(loaded.exception, files)
        ELSE IF ~HasKey(loaded.value, "completed_subtopics")
        THEN CallRaises("KeyError", files)
        ELSE LET completed == Append(loaded.value.completed_subtopics, subtopic_name)
             IN  CallReturns(None,
                    [files EXCEPT !.user_progress =
                        File([loaded.value EXCEPT
                                !.completed_subtopics = completed,
                                !.total_subtopics_practiced = Len(completed)])])

\* update_progress(subtopic_name), lines 194-201
UpdateProgress(files, subtopic_name) ==
    LET loaded == LoadUserProgress(files.user_progress)
    IN  IF loaded.raised THEN CallRaises(loaded.exception, files)
        ELSE IF ~HasKey(loaded.value, "completed_subtopics")
        THEN CallRaises("KeyError", files)
        ELSE IF Contains(loaded.value.completed_subtopics, subtopic_name)
        THEN CallReturns(None, files)
        ELSE LET completed == Append(loaded.value.completed_subtopics, subtopic_name)
             IN  CallReturns(None,
                    [files EXCEPT !.user_progress =
                        File([loaded.value EXCEPT
                                !.completed_subtopics = completed,
                                !.total_subtopics_practiced = Len(completed)])])

\* Line 208
Ranks ==
    <<"Artisan", "Peasant", "Ronin", "Samurai", "Daimyo", "Shogun", "Emperor",
      "Demigod", "Engineer">>

\* ranks.index(rank)
RankIndex(rank) == CHOOSE i \in DOMAIN Ranks : Ranks[i] = rank

\* Eligible without the test for a positive total
Eligible_ZeroIncluded(total) == total % 10 = 0

\* Line 211
Eligible(total) == total % 10 = 0 /\ total > 0

\* check_for_rank_up(), lines 203-219; the value is the new rank's name, or
\* "None"
CheckForRankUp(files) ==
    LET progress == LoadUserProgress(files.user_progress)
        stats == LoadUserStats(files.user_stats)
    IN  IF progress.raised THEN CallRaises(progress.exception, files)
        ELSE IF stats.raised THEN CallRaises(stats.exception, files)
        ELSE IF ~HasKey(progress.value, "total_subtopics_practiced")
        THEN CallRaises("KeyError", files)
        ELSE IF ~Eligible(progress.value.total_subtopics_practiced)
        THEN CallReturns("None", files)
        ELSE IF ~HasKey(stats.value, "rank") THEN CallRaises("KeyError", files)
        ELSE IF RankIndex(stats.value.rank) < Len(Ranks)
        THEN LET new_rank == Ranks[RankIndex(stats.value.rank) + 1]
             IN  CallReturns(new_rank,
                    [files EXCEPT !.user_stats =
                        File([stats.value EXCEPT !.rank = new_rank])])
        ELSE CallReturns("None", files)

---------------------------------------------------------------------------
(* The functions of utils.py as calls on the files *)

MaxCalls == 4

MaxDay == 3

\* the last instant of the clock of the model
LastTick == (MaxDay + 1) * TicksPerDay - 1

\* The instants a read of the clock can give after one that gave ts
ClockFrom(ts) == ts..LastTick

\* One call fn(args) with the outcome r, the clock at end when it returns
CallEnding(fn, args, r, end) ==
    /\ ncalls < MaxCalls
    /\ user_stats_file' = r.files.user_stats
    /\ user_progress_file' = r.files.user_progress
    /\ saved_questions_file' = r.files.saved_questions
    /\ performance_analytics_file' = r.files.performance_analytics
    /\ last_call' = [fn |-> fn, args |-> args, raised |-> r.raised,
                     exception |-> r.exception, value |-> r.value]
    /\ ncalls' = ncalls + 1
    /\ now' = end
    /\ UNCHANGED <<resolveVars, parseVars, forgeVars, sessionVars>>

\* One call fn(args) with the outcome r, of a function that reads the clock
\* at most once
Call(fn, args, r) ==
    /\ ncalls < MaxCalls
    /\ user_stats_file' = r.files.user_stats
    /\ user_progress_file' = r.files.user_progress
    /\ saved_questions_file' = r.files.saved_questions
    /\ performance_analytics_file' = r.files.performance_analytics
    /\ last_call' = [fn |-> fn, args |-> args, raised |-> r.raised,
                     exception |-> r.exception, value |-> r.value]
    /\ ncalls' = ncalls + 1
    /\ UNCHANGED <<now, resolveVars, parseVars, forgeVars, sessionVars>>

\* a read: the files stay as they are
Read(loaded) ==
    [raised |-> loaded.raised, exception |-> loaded.exception,
     value |-> loaded.value, files |-> Files]

\* The clock moves on
Tick ==
    /\ StrfDate(now + 1) <= MaxDay
    /\ now' = now + 1
    /\ UNCHANGED <<user_stats_file, user_progress_file, saved_questions_file,
                   performance_analytics_file, ncalls, last_call, resolveVars,
                   parseVars, forgeVars, sessionVars>>

\* The syllabus in the order of syllabus.json, which the boxes of app.py
\* 165-185 list and the loops of lines 520-537 read: the subtopics with
\* their chapter, subject and class.  The 11th class has no Chemistry and
\* the 12th no Maths.
SyllabusInOrder ==
    << [class |-> "11th", subject |-> "Physics", chapter |-> "Mechanics",
        subtopic |-> "Kinematics"],
       [class |-> "11th", subject |-> "Physics", chapter |-> "Mechanics",
        subtopic |-> "Vectors"],
       [class |-> "11th", subject |-> "Physics", chapter |-> "Mechanics",
        subtopic |-> "Gravitation"],
       [class |-> "11th", subject |-> "Physics", chapter |-> "Heat and Waves",
        subtopic |-> "Thermodynamics"],
       [class |-> "11th", subject |-> "Physics", chapter |-> "Heat and Waves",
        subtopic |-> "Waves"],
       [class |-> "11th", subject |-> "Maths", chapter |-> "Algebra",
        subtopic |-> "Matrices"],
       [class |-> "11th", subject |-> "Maths", chapter |-> "Calculus",
        subtopic |-> "Limits"],
       [class |-> "12th", subject |-> "Physics", chapter |-> "Electromagnetism",
        subtopic |-> "Electrostatics"],
       [class |-> "12th", subject |-> "Physics", chapter |-> "Electromagnetism",
        subtopic |-> "Magnetism"],
       [class |-> "12th", subject |-> "Physics", chapter |-> "Ray Optics",
        subtopic |-> "Optics"],
       [class |-> "12th", subject |-> "Chemistry", chapter |-> "Solutions",
        subtopic |-> "Molarity"] >>

\* The subtopics of the syllabus
Syllabus == {SyllabusInOrder[i] : i \in DOMAIN SyllabusInOrder}

\* The subtopics track_question_attempt is called for: two of a chapter and
\* one of another class and subject
AttemptInputs == {SyllabusInOrder[i] : i \in {1, 2, 11}}

CallInitializeJsonFiles ==
    Call("initialize_json_files", <<>>, InitializeJsonFiles(Files, now))

CallLoadUserStats ==
    Call("load_user_stats", <<>>, Read(LoadUserStats(user_stats_file)))

CallLoadUserProgress ==
    Call("load_user_progress", <<>>, Read(LoadUserProgress(user_progress_file)))

CallLoadSavedQuestions ==
    Call("load_saved_questions", <<>>, Read(LoadSavedQuestions(saved_questions_file)))

CallLoadPerformanceAnalytics ==
    Call("load_performance_analytics", <<>>,
         Read(LoadPerformanceAnalytics(performance_analytics_file)))

\* update_stats: the clock can move between the reads of lines 130 and 138
CallUpdateStats ==
    \E correct \in BOOLEAN, current_ts \in ClockFrom(now) :
        \E r \in {UpdateStats(Files, correct, now, current_ts)} :
            CallEnding("update_stats", <<correct>>, r,
                       IF r.raised THEN now ELSE current_ts)

CallTrackQuestionAttempt ==
    \E s \in AttemptInputs, correct \in BOOLEAN :
        Call("track_question_attempt", <<s, correct>>,
             TrackQuestionAttempt(Files, s.subtopic, s.chapter, s.subject, s.class,
                                  correct, now))

\* The names update_progress is called with: the subtopics of a syllabus, in
\* a fixed order
SubtopicNames ==
    <<"Kinematics", "Vectors", "Molarity", "Optics", "Waves", "Gravitation",
      "Thermodynamics", "Electrostatics", "Magnetism", "Matrices", "Limits",
      "Integrals", "Probability", "Sets", "Relations", "Polymers", "Alcohols",
      "Amines", "Solids", "Kinetics", "Genetics">>

\* the progress record after the first n subtopics were completed in order
ProgressAfter(n) ==
    [completed_subtopics |-> SubSeq(SubtopicNames, 1, n),
     total_subtopics_practiced |-> n]

MaxCompleted == 20

\* a name completed first, and the names that bring the total to and past
\* 10 and 20
ProgressInputs == {SubtopicNames[i] : i \in {1, 10, 11, 20, 21}}

CallUpdateProgress ==
    \E name \in ProgressInputs :
        Call("update_progress", <<name>>, UpdateProgress(Files, name))

CallCheckForRankUp == Call("check_for_rank_up", <<>>, CheckForRankUp(Files))

\* update_stats over the days: the files as initialize_json_files wrote them
\* on the first day
InitStats ==
    /\ resolveIdle
    /\ parseIdle
    /\ forgeIdle
    /\ now \in 0..(TicksPerDay - 1)
    /\ user_stats_file = File(DefaultStats(now))
    /\ user_progress_file = File(DefaultProgress)
    /\ saved_questions_file = File(<<>>)
    /\ performance_analytics_file = File(DefaultAnalytics)
    /\ ncalls = 0
    /\ last_call = NoStoreCall

NextStats == CallUpdateStats \/ Tick

SpecStats == InitStats /\ [][NextStats]_vars

\* track_question_attempt on an empty analytics store
InitAnalytics ==
    /\ resolveIdle
    /\ parseIdle
    /\ forgeIdle
    /\ now = 0
    /\ user_stats_file = File(DefaultStats(now))
    /\ user_progress_file = File(DefaultProgress)
    /\ saved_questions_file = File(<<>>)
    /\ performance_analytics_file \in {Missing, File(DefaultAnalytics)}
    /\ ncalls = 0
    /\ last_call = NoStoreCall

NextAnalytics == CallTrackQuestionAttempt

SpecAnalytics == InitAnalytics /\ [][NextAnalytics]_vars

\* update_progress and check_for_rank_up: the first n subtopics are
\* completed, and the rank is one the promotions so far can have given
InitProgress ==
    /\ resolveIdle
    /\ parseIdle
    /\ forgeIdle
    /\ now = 0
    /\ \E n \in 0..MaxCompleted, r \in DOMAIN Ranks :
          /\ r = 1 \/ n >= 10
          /\ user_progress_file = File(ProgressAfter(n))
          /\ user_stats_file = File([DefaultStats(now) EXCEPT !.rank = Ranks[r]])
    /\ saved_questions_file = File(<<>>)
    /\ performance_analytics_file = File(DefaultAnalytics)
    /\ ncalls = 0
    /\ last_call = NoStoreCall

NextProgress == CallUpdateProgress \/ CallCheckForRankUp

SpecProgress == InitProgress /\ [][NextProgress]_vars

\* The first calls on files that exist, do not exist or hold no JSON
MaxLoadCalls == 2

InitLoad ==
    /\ resolveIdle
    /\ parseIdle
    /\ forgeIdle
    /\ now = 0
    /\ user_stats_file \in {Missing, Corrupt, File(DefaultStats(now))}
    /\ user_progress_file \in {Missing, Corrupt, File(DefaultProgress)}
    /\ saved_questions_file \in {Missing, Corrupt, File(<<>>)}
    /\ performance_analytics_file \in {Missing, Corrupt, File(DefaultAnalytics)}
    /\ ncalls = 0
    /\ last_call = NoStoreCall

NextLoad ==
    /\ ncalls < MaxLoadCalls
    /\ \/ CallInitializeJsonFiles
       \/ CallLoadUserStats
       \/ CallLoadUserProgress
       \/ CallLoadSavedQuestions
       \/ CallLoadPerformanceAnalytics
       \/ CallUpdateStats
       \/ CallTrackQuestionAttempt
       \/ CallUpdateProgress
       \/ CallCheckForRankUp

SpecLoad == InitLoad /\ [][NextLoad]_vars

\* The record files after line 53 of the first run of the script
storeFreshAt(ts) ==
    /\ now = ts
    /\ user_stats_file = File(DefaultStats(now))
    /\ user_progress_file = File(DefaultProgress)
    /\ saved_questions_file = File(<<>>)
    /\ performance_analytics_file = File(DefaultAnalytics)
    /\ ncalls = 0
    /\ last_call = NoStoreCall

storeFresh == storeFreshAt(0)

\* show_saved_questions, app.py 683-692: the text the view takes for the
\* correct answer.  A stored answer of one character, once stripped, is
\* looked for at the start of the options; there is no step by position.
SavedCorrectAnswerFull(opts, correct_answer_text) ==
    LET letter == Upper(Strip(correct_answer_text))
        hits == {i \in DOMAIN opts : StartsWith(Upper(Strip(opts[i])), letter)}
    IN  IF Len(Strip(correct_answer_text)) = 1 /\ hits # {}
        THEN opts[FirstIndex(hits)]
        ELSE correct_answer_text

\* Lines 694-698: each option with its mark
SavedOptionLines(opts, correct_answer_text) ==
    [i \in DOMAIN opts |->
        [option |-> opts[i],
         correct |-> opts[i] = SavedCorrectAnswerFull(opts, correct_answer_text)]]

\* The saved questions shown: the records of the forge, with every list of
\* options and every stored answer
SavedInputs ==
    { [kind |-> "question", question_text |-> <<"x">>, options |-> o,
       correct_answer |-> c, subtopic |-> Subtopic] :
        o \in OptionLists, c \in RawAnswers }

\* Lines 675-698: the renderings of the saved questions
SavedRendering(saved) ==
    [i \in DOMAIN saved |->
        SavedOptionLines(saved[i].options, saved[i].correct_answer)]

\* saved_questions.pop(i), line 706; i counts from 1 here
Pop(list, i) == SubSeq(list, 1, i - 1) \o SubSeq(list, i + 1, Len(list))

\* One run of show_saved_questions, app.py 659-708.  click is the button
\* clicked, "none" for a run without one.  "Back to Dashboard" reruns before
\* the file is read.  Any other run reads the file and renders the
\* questions in order; "Remove" of question i pops it, writes the file and
\* reruns where its button is, after the rendering of question i.
SavedRun(click, i) ==
    /\ current_view = "saved_questions"
    /\ IF click = "back"
       THEN /\ current_view' = "dashboard"                       \* 663-665
            /\ forge_screen' = "rerun"
            /\ UNCHANGED <<saved_view, saved_questions_file>>
       ELSE \E saved \in {LoadSavedQuestions(saved_questions_file)} :
              /\ UNCHANGED current_view
              /\ IF saved.raised
                 THEN /\ forge_screen' = "exception"             \* 669
                      /\ UNCHANGED <<saved_view, saved_questions_file>>
                 ELSE IF saved.value = <<>>
                 THEN /\ forge_screen' = "saved_questions"       \* 671-673
                      /\ saved_view' = <<>>
                      /\ UNCHANGED saved_questions_file
                 ELSE IF click = "remove"
                 THEN /\ i \in DOMAIN saved.value                \* 705-708
                      /\ saved_view' = SubSeq(SavedRendering(saved.value), 1, i)
                      /\ saved_questions_file' = File(Pop(saved.value, i))
                      /\ forge_screen' = "rerun"
                 ELSE /\ saved_view' = SavedRendering(saved.value)
                      /\ forge_screen' = "saved_questions"
                      /\ UNCHANGED saved_questions_file
    /\ UNCHANGED <<selected_subtopic, current_question_index, questions,
                   question_submitted, subtopic_completed, question_tracked,
                   gen_env, gen_result, resolveVars, parseVars, user_stats_file,
                   user_progress_file, performance_analytics_file, now, ncalls,
                   last_call, selected_class, selected_subject, selected_chapter,
                   generated, question_ids, submitted_ids, stats_calls, track_calls,
                   challengeVars>>

\* The run of the saved-questions view that follows st.rerun()
ShowSavedQuestions ==
    /\ forge_screen = "rerun"
    /\ SavedRun("none", 0)

\* show_saved_questions, "Remove", app.py 705-708
RemoveSavedQuestion ==
    /\ forge_screen = "saved_questions"
    /\ \E i \in DOMAIN saved_view : SavedRun("remove", i)

\* show_saved_questions, "Back to Dashboard", app.py 663-665
BackFromSavedQuestions ==
    /\ forge_screen # "rerun"
    /\ SavedRun("back", 0)

\* One run of show_analytics, app.py 553-657: "Back to Dashboard" reruns;
\* any other run reads the analytics file, which raises nothing, and shows
\* the figures
AnalyticsRun(click) ==
    /\ current_view = "analytics"
    /\ current_view' = IF click = "back" THEN "dashboard" ELSE current_view
    /\ forge_screen' = IF click = "back" THEN "rerun" ELSE "analytics"
    /\ UNCHANGED navUnchanged

\* The run of the analytics view that follows st.rerun()
ShowAnalytics ==
    /\ forge_screen = "rerun"
    /\ AnalyticsRun("none")

\* show_analytics, "Back to Dashboard", app.py 557-559
BackFromAnalytics ==
    /\ forge_screen # "rerun"
    /\ AnalyticsRun("back")

\* The saved-questions view opened on a file that holds one saved question
InitSaved ==
    /\ resolveIdle
    /\ parseIdle
    /\ current_view = "saved_questions"
    /\ selected_class = "None"
    /\ selected_subject = "None"
    /\ selected_chapter = "None"
    /\ selected_subtopic = "None"
    /\ current_question_index = 0
    /\ questions = <<>>
    /\ question_submitted = FALSE
    /\ subtopic_completed = FALSE
    /\ question_tracked = {}
    /\ forge_screen = "rerun"
    /\ gen_env = NoEnv
    /\ gen_result = NoCall
    /\ generated = 0
    /\ question_ids = <<>>
    /\ submitted_ids = {}
    /\ stats_calls = <<>>
    /\ track_calls = <<>>
    /\ saved_view = <<>>
    /\ challengeIdle
    /\ now = 0
    /\ user_stats_file = File(DefaultStats(now))
    /\ user_progress_file = File(DefaultProgress)
    /\ \E q \in SavedInputs : saved_questions_file = File(<<q>>)
    /\ performance_analytics_file = File(DefaultAnalytics)
    /\ ncalls = 0
    /\ last_call = NoStoreCall

NextSaved ==
    \/ ShowSavedQuestions
    \/ RemoveSavedQuestion

SpecSaved == InitSaved /\ [][NextSaved]_vars

---------------------------------------------------------------------------
(* Question generation: generate_question_from_api, src/utils.py 221-308,
   and the forge view's use of it, src/app.py 281-291 *)

\* create_fallback_question, lines 440-453
CreateFallbackQuestion(subtopic_name) ==
    [kind |-> "question",
     question_text |-> <<"Sample question for ", subtopic_name,
                         ": What is the fundamental concept underlying this topic?">>,
     options |-> << <<"O", "p", "t", "i", "o", "n", " ", "1", " ", "-", " ", "B", "a", "s", "i", "c", " ", "p", "r", "i", "n", "c", "i", "p", "l", "e">>,
                    <<"O", "p", "t", "i", "o", "n", " ", "2", " ", "-", " ", "A", "d", "v", "a", "n", "c", "e", "d", " ", "c", "o", "n", "c", "e", "p", "t">>,
                    <<"O", "p", "t", "i", "o", "n", " ", "3", " ", "-", " ", "R", "e", "l", "a", "t", "e", "d", " ", "t", "h", "e", "o", "r", "y">>,
                    <<"O", "p", "t", "i", "o", "n", " ", "4", " ", "-", " ", "A", "l", "t", "e", "r", "n", "a", "t", "i", "v", "e", " ", "a", "p", "p", "r", "o", "a", "c", "h">> >>,
     correct_answer |-> <<"A">>,
     explanation |-> <<"This is a sample question for ", subtopic_name,
                       ". In a real scenario, this would contain a detailed step-by-step explanation of the concept, common mistakes students make, and how to avoid them. The explanation would also cover the fundamental principles underlying this subtopic and how it relates to other concepts in the syllabus.">>,
     subtopic |-> subtopic_name]

\* generate_explanation, lines 310-367: the response's text, or a
\* placeholder; it raises nothing
GenerateExplanation(outcome) ==
    CASE outcome = "text" -> "response.text"
      [] outcome = "no_response" -> "No explanation available."
      [] OTHER -> "Could not generate explanation: ..."

\* Whether the function's local name genai is bound when the given line
\* runs. The import of line 231 makes genai a local of the whole function
\* and is its only binding.
GenaiBoundAt(line) == line > 231

Raises(exc) == [raised |-> TRUE, exception |-> exc, value |-> [kind |-> "None"]]

Returns(v) == [raised |-> FALSE, exception |-> "none", value |-> v]

\* Lines 257-308: the try block around the provider call
CallProvider(e, subtopic_name) ==
    IF e.provider = "raises"
    THEN Returns(CreateFallbackQuestion(subtopic_name))          \* 305-308
    ELSE IF e.provider = "no_response"
    THEN Returns(CreateFallbackQuestion(subtopic_name))          \* 300-303
    ELSE LET parsed == ParseGeneratedQuestion(e.response_text, subtopic_name).value
         IN  IF parsed.kind = "question"
             THEN Returns([kind |-> "question",                  \* 280-295
                           question_text |-> parsed.question_text,
                           options |-> parsed.options,
                           correct_answer |-> parsed.correct_answer,
                           explanation |-> GenerateExplanation(e.explanation),
                           subtopic |-> parsed.subtopic])
             ELSE Returns(CreateFallbackQuestion(subtopic_name)) \* 296-298

\* generate_question_from_api(subtopic_name) in the environment e:
\*   e.secret       st.secrets holds GEMINI_API_KEY
\*   e.library      google.generativeai can be imported
\*   e.provider     generate_content "raises", gives "no_response", or a
\*                  "response" whose text is e.response_text
\*   e.explanation  the outcome of the explanation request
GenerateQuestionFromApi(e, subtopic_name) ==
    IF ~e.secret
    THEN Raises("KeyError")                                      \* 226
    ELSE IF ~GenaiBoundAt(227)
    THEN Raises("UnboundLocalError")                             \* 227
    ELSE IF ~e.library
    THEN Returns(CreateFallbackQuestion(subtopic_name))          \* 230-236
    ELSE CallProvider(e, subtopic_name)

\* The subtopics of the syllabus the user can select
Subtopics == {s.subtopic : s \in Syllabus}

\* A well-formed response, and one with an option missing
GoodResponse ==
    WellFormedBlock(<<"Q", "u", "e", "s", "t", "i", "o", "n", ":">>, ".", PlainOptions,
                    <<"C", "o", "r", "r", "e", "c", "t", " ", "A", "n", "s", "w", "e", "r", ":">>, <<"B">>)

BadResponse == SubSeq(GoodResponse, 1, 4) \o SubSeq(GoodResponse, 6, 6)

Environments ==
    { e \in [secret : BOOLEAN, library : BOOLEAN,
             provider : {"raises", "no_response", "response"},
             response_text : {<<>>, GoodResponse, BadResponse},
             explanation : {"text", "no_response", "raises"}] :
        e.provider = "response" <=> e.response_text # <<>> }

\* Session state after lines 23-50
sessionFresh ==
    /\ current_view = "dashboard"
    /\ selected_class = "None"
    /\ selected_subject = "None"
    /\ selected_chapter = "None"
    /\ selected_subtopic = "None"
    /\ current_question_index = 0
    /\ questions = <<>>
    /\ question_submitted = FALSE
    /\ subtopic_completed = FALSE
    /\ question_tracked = {}
    /\ forge_screen = "none"
    /\ gen_env = NoEnv
    /\ gen_result = NoCall
    /\ generated = 0
    /\ question_ids = <<>>
    /\ submitted_ids = {}
    /\ stats_calls = <<>>
    /\ track_calls = <<>>
    /\ saved_view = <<>>
    /\ challengeIdle
    /\ resolveIdle
    /\ parseIdle

\* The first run of the script, at the first instant of the clock
InitForge ==
    /\ sessionFresh
    /\ storeFresh

\* One run of show_dashboard, app.py 62-132.  click is the button clicked,
\* "none" for a run without one; each button sets current_view and reruns.
DashboardRun(click) ==
    /\ current_view = "dashboard"
    /\ current_view' = CASE click = "enter_dojo" -> "dojo"                     \* 113-115
                         [] click = "saved_questions" -> "saved_questions"     \* 118-120
                         [] click = "analytics" -> "analytics"                 \* 125-127
                         [] click = "challenge" -> "challenge_setup"           \* 130-132
                         [] OTHER -> current_view
    /\ forge_screen' = IF click = "none" THEN "dashboard" ELSE "rerun"
    /\ UNCHANGED navUnchanged

\* The run of the dashboard that follows st.rerun()
ShowDashboard ==
    /\ forge_screen = "rerun"
    /\ DashboardRun("none")

\* show_dashboard, "Enter the Dojo", app.py 113-115
EnterDojo ==
    /\ forge_screen # "rerun"
    /\ DashboardRun("enter_dojo")

\* show_dashboard, "View Saved Questions", app.py 118-120
ViewSavedQuestions ==
    /\ forge_screen # "rerun"
    /\ DashboardRun("saved_questions")

\* show_dashboard, "Performance Analytics", app.py 125-127
ViewAnalytics ==
    /\ forge_screen # "rerun"
    /\ DashboardRun("analytics")

\* Lines 148 and 156: the options of the class and the subject box
Classes == <<"11th", "12th">>

Subjects == <<"Physics", "Chemistry", "Maths">>

\* Line 163: the syllabus has the class and, for it, the subject
InSyllabus(class, subject) ==
    \E s \in Syllabus : s.class = class /\ s.subject = subject

\* the boxes of chapter and subtopic are not shown
NoEntry == [chapter |-> "None", subtopic |-> "None"]

\* Lines 164-193: what the boxes of chapter and subtopic can give for a
\* class and a subject
BoxChoices(class, subject) ==
    IF InSyllabus(class, subject)
    THEN {[chapter |-> s.chapter, subtopic |-> s.subtopic] :
            s \in {t \in Syllabus : t.class = class /\ t.subject = subject}}
    ELSE {NoEntry}

\* The first chapter of a class and subject and its first subtopic: what
\* the boxes give when nothing was selected in them
FirstEntry(class, subject) ==
    IF InSyllabus(class, subject)
    THEN LET first == SyllabusInOrder[FirstIndex(
                         {i \in DOMAIN SyllabusInOrder :
                             /\ SyllabusInOrder[i].class = class
                             /\ SyllabusInOrder[i].subject = subject})]
         IN  [chapter |-> first.chapter, subtopic |-> first.subtopic]
    ELSE NoEntry

\* One run of show_dojo, app.py 134-208.  click is the button clicked,
\* "none" for a run without one; class, subject and entry are the values of
\* the select boxes.  "Back to Dashboard" reruns before the boxes are read.
\* Any other run writes class and subject (151, 157), and chapter and
\* subtopic only when the syllabus has the subject of the class (163-193);
\* "Begin Forging" is shown when a subtopic is selected after that.
DojoRun(click, class, subject, entry) ==
    /\ current_view = "dojo"
    /\ IF click = "back"
       THEN /\ current_view' = "dashboard"
            /\ forge_screen' = "rerun"
            /\ UNCHANGED <<selected_class, selected_subject, selected_chapter,
                           selected_subtopic, current_question_index, questions,
                           question_ids, question_submitted, subtopic_completed,
                           question_tracked>>
       ELSE /\ selected_class' = class
            /\ selected_subject' = subject
            /\ IF InSyllabus(class, subject)
               THEN /\ selected_chapter' = entry.chapter
                    /\ selected_subtopic' = entry.subtopic
               ELSE UNCHANGED <<selected_chapter, selected_subtopic>>
            /\ IF click = "begin"
               THEN /\ selected_subtopic' # "None"
                    /\ current_view' = "forge"
                    /\ current_question_index' = 0
                    /\ questions' = <<>>
                    /\ question_ids' = <<>>
                    /\ question_submitted' = FALSE
                    /\ subtopic_completed' = FALSE
                    /\ question_tracked' = {}
                    /\ forge_screen' = "rerun"
               ELSE /\ forge_screen' = "dojo"
                    /\ UNCHANGED <<current_view, current_question_index, questions,
                                   question_ids, question_submitted,
                                   subtopic_completed, question_tracked>>
    /\ UNCHANGED <<gen_env, gen_result, resolveVars, parseVars, storeVars, generated,
                   submitted_ids, stats_calls, track_calls, saved_view, challengeVars>>

\* The run of the dojo that follows st.rerun(): the boxes were not on
\* screen in the run before and give their first options
ShowDojo ==
    /\ forge_screen = "rerun"
    /\ DojoRun("none", Classes[1], Subjects[1], FirstEntry(Classes[1], Subjects[1]))

\* show_dojo, the select boxes of class, subject, chapter and subtopic,
\* app.py 145-193: the run that a change of a box starts
SelectSubtopic ==
    /\ forge_screen # "rerun"
    /\ \E i \in DOMAIN Classes, j \in DOMAIN Subjects :
          \E entry \in BoxChoices(Classes[i], Subjects[j]) :
              DojoRun("none", Classes[i], Subjects[j], entry)

\* The values the boxes have in a run that a button started: those of the
\* run before
BoxEntry == [chapter |-> selected_chapter, subtopic |-> selected_subtopic]

\* show_dojo, "Back to Dashboard", app.py 138-140
BackToDashboard ==
    /\ forge_screen # "rerun"
    /\ DojoRun("back", selected_class, selected_subject, BoxEntry)

\* show_dojo, "Begin Forging", app.py 198-208
BeginForging ==
    /\ forge_screen # "rerun"
    /\ DojoRun("begin", selected_class, selected_subject, BoxEntry)

\* Line 265
TotalQuestions == 3

\* Line 388: f"{current_subtopic}_{st.session_state.current_question_index}"
QuestionKey(subtopic, index) == <<subtopic, "_", index>>

\* NotTracked without the test: every graded run tracks
NotTracked_Always(key, tracked) == TRUE

\* Line 389
NotTracked(key, tracked) == key \notin tracked

\* v with one more call counted for question id
CountCall(v, id) == [v EXCEPT ![id] = @ + 1]

\* Lines 281-291 when the call of line 285 raised: the error and "Try Again"
\* are shown.  The button is evaluated in the except branch: a run that a
\* click on it started reruns at line 290, any other run returns at 291.
GenerationFailed(click, r, e) ==
    /\ Len(questions) <= current_question_index
    /\ r.raised
    /\ gen_env' = e
    /\ gen_result' = r
    /\ forge_screen' = IF click = "try_again" THEN "rerun" ELSE "generation_failed"
    /\ UNCHANGED <<current_view, selected_subtopic, current_question_index, questions,
                   question_submitted, subtopic_completed, question_tracked,
                   resolveVars, parseVars, storeVars, sessionVars>>

\* Lines 281-311, the question not yet submitted: the question is generated
\* when the list holds none for the current index, the radio's value (the
\* a-th option) is stored, and "Submit Answer", when clicked, sets
\* question_submitted and reruns
ShowQuestion(click, r, e, a) ==
    LET need == Len(questions) <= current_question_index
        qs == IF need THEN Append(questions, r.value) ELSE questions
        ids == IF need THEN Append(question_ids, generated + 1) ELSE question_ids
    IN  /\ ~question_submitted
        /\ need => ~r.raised
        /\ gen_env' = IF need THEN e ELSE gen_env
        /\ gen_result' = IF need THEN r ELSE gen_result
        /\ questions' = qs
        /\ question_ids' = ids
        /\ generated' = IF need THEN generated + 1 ELSE generated
        /\ stats_calls' = IF need THEN Append(stats_calls, 0) ELSE stats_calls
        /\ track_calls' = IF need THEN Append(track_calls, 0) ELSE track_calls
        /\ user_answer' = qs[current_question_index + 1].options[a]
        /\ IF click = "submit"
           THEN /\ question_submitted' = TRUE
                /\ submitted_ids' = submitted_ids \cup {ids[current_question_index + 1]}
                /\ forge_screen' = "rerun"
           ELSE /\ forge_screen' = "question"
                /\ UNCHANGED <<question_submitted, submitted_ids>>
        /\ UNCHANGED <<current_view, selected_subtopic, current_question_index,
                       subtopic_completed, question_tracked, rpc, options,
                       api_correct_answer, correct_answer_full_text, correct_letter,
                       resolve_raised, is_correct, user_index, correct_index,
                       formatted_options, parseVars, storeVars, selected_class,
                       selected_subject, selected_chapter, saved_view, challengeVars>>

\* What a graded run computes up to its buttons, lines 313-401: the
\* resolution, the grade, and the tracking of the question under its key.
\* reads are the instants the clock gives to update_stats (utils.py 130
\* and 138) and to track_question_attempt (157), when they are called.
GradedRun(reads) ==
    LET q == questions[current_question_index + 1]
        resolved == ResolveAnswer(q.options, q.correct_answer).value
        correct == IsCorrect(user_answer, resolved)
        key == QuestionKey(selected_subtopic, current_question_index)
        track == NotTracked(key, question_tracked)
        updated == IF track THEN UpdateStats(Files, correct, reads[1], reads[2])
                   ELSE CallReturns(None, Files)
        tracked == IF track /\ ~updated.raised
                   THEN TrackQuestionAttempt(updated.files, selected_subtopic,
                                             selected_chapter, selected_subject,
                                             selected_class, correct, reads[3])
                   ELSE updated
    IN  [question |-> q,
         id |-> question_ids[current_question_index + 1],
         resolved |-> resolved,
         correct |-> correct,
         update_stats_called |-> track,
         track_called |-> track /\ ~updated.raised,
         raised |-> tracked.raised,
         files |-> tracked.files,
         now |-> IF ~track \/ updated.raised THEN now
                 ELSE IF tracked.raised THEN reads[2]
                 ELSE reads[3],
         question_tracked |-> IF track /\ ~updated.raised
                              THEN question_tracked \cup {key}
                              ELSE question_tracked]

\* The instants the clock gives to the reads of a graded run: the first is
\* the instant the run starts at, and the clock does not go back.  A run
\* that tracks nothing reads no clock.
ClockReads ==
    IF NotTracked(QuestionKey(selected_subtopic, current_question_index),
                  question_tracked)
    THEN {reads \in {<<now, t, u>> : t \in ClockFrom(now), u \in ClockFrom(now)} :
            reads[2] <= reads[3]}
    ELSE {<<now, now, now>>}

\* What the clicked button of a graded run does to the files, lines 403-428
ButtonFiles(click, g) ==
    IF g.raised THEN CallRaises("exception", g.files)
    ELSE IF click = "save"
    THEN LET saved == LoadSavedQuestions(g.files.saved_questions)
         IN  IF saved.raised THEN CallRaises(saved.exception, g.files)
             ELSE CallReturns(None,
                    [g.files EXCEPT !.saved_questions =
                        File(Append(saved.value, g.question))])
    ELSE IF click = "finish"
    THEN LET progress == UpdateProgress(g.files, selected_subtopic)
         IN  IF progress.raised THEN progress ELSE CheckForRankUp(progress.files)
    ELSE CallReturns(None, g.files)

\* Lines 313-448, the question submitted: the graded view, the tracking, and
\* the clicked button, if any: "save", "next" (not on the last question) or
\* "finish" (on the last one).  An exception ends the run where it is
\* raised.
ShowGraded(click) ==
    /\ question_submitted
    /\ Len(questions) > current_question_index
    /\ click = "next" => current_question_index < TotalQuestions - 1
    /\ click = "finish" => current_question_index >= TotalQuestions - 1
    /\ \E reads \in ClockReads : \E g \in {GradedRun(reads)} :
       \E b \in {ButtonFiles(click, g)} : \E done \in {~b.raised} :
        /\ now' = g.now
        /\ correct_answer_full_text' = g.resolved
        /\ is_correct' = g.correct
        /\ stats_calls' = IF g.update_stats_called THEN CountCall(stats_calls, g.id)
                          ELSE stats_calls
        /\ track_calls' = IF g.track_called THEN CountCall(track_calls, g.id)
                          ELSE track_calls
        /\ question_tracked' = g.question_tracked
        /\ user_stats_file' = b.files.user_stats
        /\ user_progress_file' = b.files.user_progress
        /\ saved_questions_file' = b.files.saved_questions
        /\ performance_analytics_file' = b.files.performance_analytics
        /\ IF done /\ click = "next"
           THEN /\ current_question_index' = current_question_index + 1
                /\ question_submitted' = FALSE
                /\ user_answer' = None
                /\ forge_screen' = "rerun"
                /\ UNCHANGED <<current_view, questions, question_ids,
                               subtopic_completed>>
           ELSE IF done /\ click = "finish"
           THEN /\ subtopic_completed' = TRUE
                /\ current_view' = "dojo"
                /\ current_question_index' = 0
                /\ questions' = <<>>
                /\ question_ids' = <<>>
                /\ question_submitted' = FALSE
                /\ forge_screen' = "rerun"
                /\ UNCHANGED user_answer
           ELSE /\ forge_screen' = IF done THEN "graded" ELSE "exception"
                /\ UNCHANGED <<current_view, current_question_index, questions,
                               question_ids, question_submitted, subtopic_completed,
                               user_answer>>
        /\ UNCHANGED <<selected_subtopic, gen_env, gen_result, rpc, options,
                       api_correct_answer, correct_letter, resolve_raised, user_index,
                       correct_index, formatted_options, parseVars, ncalls,
                       last_call, selected_class, selected_subject, selected_chapter,
                       generated, submitted_ids, saved_view, challengeVars>>

\* One run of show_forge in regular mode, app.py 247-448.  click is the
\* button clicked, "none" for a run without one; r is what the call of line
\* 285 does in the environment e, when the run makes it; a is the position
\* of the radio's value.
ForgeRun(click, r, e, a) ==
    /\ ~challenge_mode
    /\ \/ click \in {"none", "try_again"} /\ GenerationFailed(click, r, e)
       \/ click \in {"none", "try_again", "submit"} /\ ShowQuestion(click, r, e, a)
       \/ click \in {"none", "save", "next", "finish"} /\ ShowGraded(click)

\* A run without a click, the generation being generate_question_from_api
RunForge(e) ==
    \E r \in {GenerateQuestionFromApi(e, selected_subtopic)}, a \in 1..NumOptions :
        ForgeRun("none", r, e, a)

\* The run that follows st.rerun()
ShowForge ==
    /\ current_view = "forge"
    /\ forge_screen = "rerun"
    /\ \E e \in Environments : RunForge(e)

\* "Try Again", app.py 289-290: the click runs show_forge again, which
\* calls the generation again; when that raises again the button is met as
\* clicked and the run reruns
TryAgain ==
    /\ current_view = "forge"
    /\ forge_screen = "generation_failed"
    /\ \E e \in Environments :
          \E r \in {GenerateQuestionFromApi(e, selected_subtopic)}, a \in 1..NumOptions :
              ForgeRun("try_again", r, e, a)

\* "Back to Dojo", app.py 250-252: the run reruns before the question is
\* reached
BackToDojo ==
    /\ current_view = "forge"
    /\ ~challenge_mode
    /\ forge_screen # "rerun"
    /\ current_view' = "dojo"
    /\ forge_screen' = "rerun"
    /\ UNCHANGED navUnchanged

NextForge ==
    \/ ShowDashboard
    \/ EnterDojo
    \/ ViewSavedQuestions
    \/ ViewAnalytics
    \/ ShowDojo
    \/ BackToDashboard
    \/ SelectSubtopic
    \/ BeginForging
    \/ ShowForge
    \/ TryAgain
    \/ BackToDojo
    \/ ShowSavedQuestions
    \/ BackFromSavedQuestions
    \/ ShowAnalytics
    \/ BackFromAnalytics

SpecForge == InitForge /\ [][NextForge]_vars

---------------------------------------------------------------------------
(* A forge session in regular mode, app.py 198-208 and 247-448.  The call of
   line 285 is taken as show_forge sees it: it raises, or it returns a
   question record. *)

MaxGenerated == 3

MaxSaved == 1

\* What the call of line 285 can do: it raises, or it returns a question,
\* here the fallback question
GenerationOutcomes ==
    [subtopic_name \in Subtopics |->
        { Raises("Exception"),
          Returns(CreateFallbackQuestion(subtopic_name)) }]

\* The positions of the options the user selects: the first, which is the
\* fallback question's correct one, and the second
RadioChoices == {1, 2}

\* a run that generates counts against the bound
MayGenerate == Len(questions) <= current_question_index => generated < MaxGenerated

\* What the call of line 285 does in a run: a run that has the question of
\* the current index makes no call
CallOutcomes ==
    IF Len(questions) <= current_question_index
    THEN GenerationOutcomes[selected_subtopic]
    ELSE {NoCall}

\* The values the radio of line 303 can have: a run of the graded view
\* shows no radio
RadioPositions == IF question_submitted THEN {1} ELSE RadioChoices

\* A run of show_forge without a click: the one that follows st.rerun(), or
\* one that a change of the radio's selection starts
Rerun ==
    /\ current_view = "forge"
    /\ forge_screen \in {"rerun", "question", "graded"}
    /\ MayGenerate
    /\ \E r \in CallOutcomes, a \in RadioPositions :
          ForgeRun("none", r, NoEnv, a)

\* The values of the boxes of the dojo the sessions are begun with, next
\* to the first subtopic, which the boxes give by themselves: the second
\* subtopic of the same chapter
SessionBoxes ==
    { <<"11th", "Physics", [chapter |-> "Mechanics", subtopic |-> "Vectors"]>> }

\* show_dojo, a change of a select box, app.py 145-193
SelectSessionSubtopic ==
    /\ forge_screen # "rerun"
    /\ \E boxes \in SessionBoxes : DojoRun("none", boxes[1], boxes[2], boxes[3])

\* "Try Again", app.py 289-290
Retry ==
    /\ current_view = "forge"
    /\ forge_screen = "generation_failed"
    /\ MayGenerate
    /\ \E r \in CallOutcomes, a \in RadioPositions :
          ForgeRun("try_again", r, NoEnv, a)

\* "Submit Answer", app.py 309-311
SubmitAnswer ==
    /\ current_view = "forge"
    /\ forge_screen = "question"
    /\ \E a \in RadioChoices : ForgeRun("submit", NoCall, NoEnv, a)

\* "Save Question", app.py 407-411
SaveQuestion ==
    /\ current_view = "forge"
    /\ forge_screen = "graded"
    /\ Len(LoadSavedQuestions(saved_questions_file).value) < MaxSaved
    /\ ForgeRun("save", NoCall, NoEnv, 1)

\* "Next Question", app.py 417-421
NextQuestion ==
    /\ current_view = "forge"
    /\ forge_screen = "graded"
    /\ ForgeRun("next", NoCall, NoEnv, 1)

\* "Finish Forging", app.py 424-448
FinishForging ==
    /\ current_view = "forge"
    /\ forge_screen = "graded"
    /\ ForgeRun("finish", NoCall, NoEnv, 1)

\* The first run of the script, at an instant the clock of the model does
\* not move from
InitSession ==
    /\ sessionFresh
    /\ storeFreshAt(LastTick)

NextSession ==
    \/ EnterDojo
    \/ ShowDojo
    \/ SelectSessionSubtopic
    \/ BeginForging
    \/ Rerun
    \/ Retry
    \/ SubmitAnswer
    \/ SaveQuestion
    \/ NextQuestion
    \/ FinishForging
    \/ BackToDojo
    \/ BackToDashboard
    \/ ShowDashboard

SpecSession == InitSession /\ [][NextSession]_vars

\* The forge session over two days, from the files initialize_json_files
\* writes at the start of the first of them: the call of line 285 raises or
\* returns, as in SpecSession, and the clock moves between the runs and
\* during them
InitGraded ==
    /\ sessionFresh
    /\ storeFreshAt((MaxDay - 1) * TicksPerDay)

NextGraded ==
    \/ EnterDojo
    \/ ShowDojo
    \/ BeginForging
    \/ Rerun
    \/ Retry
    \/ SubmitAnswer
    \/ NextQuestion
    \/ FinishForging
    \/ Tick

SpecGraded == InitGraded /\ [][NextGraded]_vars

---------------------------------------------------------------------------
(* The timed challenge: show_challenge_setup, app.py 450-551, and the
   challenge branch of show_forge, app.py 213-244 *)

\* the seconds of a tick of the clock
SecondsPerDay == 86400

SecondsPerTick == SecondsPerDay \div TicksPerDay

\* Line 217: (datetime.now() - challenge_start_time).total_seconds()
Elapsed(ts, start) == (ts - start) * SecondsPerTick

\* Line 218: max(0, challenge_time_limit - elapsed)
Remaining(ts, start, limit) ==
    IF limit - Elapsed(ts, start) > 0 THEN limit - Elapsed(ts, start) ELSE 0

\* Lines 520-537: the subtopics the filters leave
AvailableSubtopics(subject_filter, class_filter) ==
    SelectSeq(SyllabusInOrder,
              LAMBDA s : /\ class_filter = "Both Classes" \/ s.class = class_filter
                         /\ subject_filter = "All Subjects" \/ s.subject = subject_filter)

\* Lines 540-545: the lists the selection can give.  random.sample gives
\* any num_questions different entries in any order; a list too short is
\* repeated and cut; no list when nothing is available.
SelectedSubtopics(available, num_questions) ==
    IF Len(available) >= num_questions
    THEN { [i \in 1..num_questions |-> available[f[i]]] :
             f \in { g \in [1..num_questions -> DOMAIN available] :
                       \A i, j \in 1..num_questions : g[i] = g[j] => i = j } }
    ELSE IF Len(available) > 0
    THEN { [i \in 1..num_questions |-> available[((i - 1) % Len(available)) + 1]] }
    ELSE {}

\* The choices of the select boxes of lines 476-499 the model takes
NumQuestionsChoices == {15, 20}

TimeLimitChoices == {180, 300}

SubjectFilters == {"All Subjects", "Physics", "Maths"}

ClassFilters == {"Both Classes", "12th"}

\* show_dashboard, "Timed Challenge", app.py 130-132
OpenChallengeSetup ==
    /\ forge_screen # "rerun"
    /\ DashboardRun("challenge")

\* One run of show_challenge_setup, app.py 450-551.  click is the button
\* clicked, "none" for a run without one; the other arguments are the
\* values of the select boxes.  "Start Challenge" sets the session state
\* before the subtopics are selected: with nothing available the handler
\* returns at line 548 with challenge_mode and current_view set and
\* challenge_subtopics as it was.
ChallengeSetupRun(click, num_questions, time_limit, subject_filter, class_filter) ==
    /\ current_view = "challenge_setup"
    /\ IF click = "back"
       THEN /\ current_view' = "dashboard"                       \* 454-456
            /\ forge_screen' = "rerun"
            /\ UNCHANGED <<current_question_index, questions, question_ids,
                           question_submitted, question_tracked, challengeVars>>
       ELSE IF click = "start"
       THEN \E choices \in {SelectedSubtopics(AvailableSubtopics(subject_filter,
                                                                 class_filter),
                                              num_questions)} :
              /\ challenge_mode' = TRUE                          \* 504-514
              /\ challenge_start_time' = now
              /\ challenge_time_limit' = time_limit
              /\ challenge_num_questions' = num_questions
              /\ challenge_subject' = subject_filter
              /\ challenge_class' = class_filter
              /\ current_view' = "forge"
              /\ current_question_index' = 0
              /\ questions' = <<>>
              /\ question_ids' = <<>>
              /\ question_submitted' = FALSE
              /\ question_tracked' = {}
              /\ timer_display' = NoTime
              /\ IF choices = {}
                 THEN /\ forge_screen' = "no_subtopics"          \* 546-548
                      /\ UNCHANGED challenge_subtopics
                 ELSE /\ forge_screen' = "rerun"                 \* 550-551
                      /\ challenge_subtopics' \in choices
       ELSE /\ forge_screen' = "challenge_setup"
            /\ UNCHANGED <<current_view, current_question_index, questions,
                           question_ids, question_submitted, question_tracked,
                           challengeVars>>
    /\ UNCHANGED <<selected_subtopic, subtopic_completed, gen_env, gen_result,
                   resolveVars, parseVars, storeVars, selected_class,
                   selected_subject, selected_chapter, generated, submitted_ids,
                   stats_calls, track_calls, saved_view>>

\* The run of the challenge setup that follows st.rerun()
ShowChallengeSetup ==
    /\ forge_screen = "rerun"
    /\ ChallengeSetupRun("none", 10, 300, "All Subjects", "Both Classes")

\* show_challenge_setup, "Back to Dashboard", app.py 454-456
LeaveChallengeSetup ==
    /\ forge_screen # "rerun"
    /\ ChallengeSetupRun("back", 10, 300, "All Subjects", "Both Classes")

\* show_challenge_setup, "Start Challenge", app.py 502-551
StartChallenge ==
    /\ forge_screen # "rerun"
    /\ \E num_questions \in NumQuestionsChoices, time_limit \in TimeLimitChoices,
          subject_filter \in SubjectFilters, class_filter \in ClassFilters :
          ChallengeSetupRun("start", num_questions, time_limit, subject_filter,
                            class_filter)

\* the challenge is over: lines 223-225 and 239-241
EndChallenge ==
    /\ challenge_mode' = FALSE
    /\ current_view' = "dashboard"
    /\ forge_screen' = "rerun"

\* One run of show_forge in challenge mode, app.py 213-244.  With no time
\* left the challenge ends before the timer is shown; in any other run the
\* timer is shown, "End Challenge" ends the challenge, and without that
\* click the script sleeps and reruns at line 244, which ends the run
\* there: the lines from 254 on, the question among them, are not reached.
ChallengeRun(click) ==
    /\ current_view = "forge"
    /\ challenge_mode
    /\ \E remaining \in {Remaining(now, challenge_start_time, challenge_time_limit)} :
          IF remaining = 0
          THEN /\ EndChallenge
               /\ timer_display' = NoTime
          ELSE IF click = "end_challenge"
          THEN /\ EndChallenge
               /\ timer_display' = NoTime
          ELSE /\ timer_display' = remaining
               /\ forge_screen' = "rerun"
               /\ UNCHANGED <<challenge_mode, current_view>>
    /\ UNCHANGED <<selected_subtopic, current_question_index, questions,
                   question_submitted, subtopic_completed, question_tracked, gen_env,
                   gen_result, resolveVars, parseVars, storeVars, selected_class,
                   selected_subject, selected_chapter, generated, question_ids,
                   submitted_ids, stats_calls, track_calls, saved_view,
                   challenge_start_time, challenge_time_limit,
                   challenge_num_questions, challenge_subtopics, challenge_subject,
                   challenge_class>>

\* the run that follows st.rerun(), or any click on the page a failed
\* "Start Challenge" left on screen
TimerRun == ChallengeRun("none")

\* "End Challenge", app.py 238-241: the button is on screen with the timer
ClickEndChallenge ==
    /\ timer_display # NoTime
    /\ ChallengeRun("end_challenge")

InitChallenge == InitForge

NextChallenge ==
    \/ OpenChallengeSetup
    \/ ShowChallengeSetup
    \/ LeaveChallengeSetup
    \/ StartChallenge
    \/ TimerRun
    \/ ClickEndChallenge
    \/ ShowDashboard
    \/ Tick

SpecChallenge == InitChallenge /\ [][NextChallenge]_vars

\* The script reruns by itself in challenge mode (line 244) and the clock
\* goes on
FairSpecChallenge ==
    SpecChallenge /\ WF_vars(TimerRun) /\ WF_vars(Tick)

---------------------------------------------------------------------------
(* Properties of the answer resolution, under SpecResolve *)

OptionSet == {options[i] : i \in DOMAIN options}

Resolved == rpc \in {"resolved", "graded"}

\* the text starts with a letter designator: a letter, then one of . ) :
LetterPrefixed(opt) ==
    LET s == Upper(Strip(opt))
    IN  /\ Len(s) >= 2
        /\ IsUpper(s[1])
        /\ s[2] \in {".", ")", ":"}

IsAlpha(c) == IsUpper(c) \/ IsLower(c)

HasAlpha(s) == \E i \in DOMAIN s : IsAlpha(s[i])

\* the first alphabetic character of s
FirstAlpha(s) == s[FirstIndex({i \in DOMAIN s : IsAlpha(s[i])})]

\* C2: for a 4-option list none of whose options starts with a letter
\* designator ("A. ", "B) ", ...), a raw answer A, B, C or D resolves to
\* the option at the letter's position (A=0, B=1, C=2, D=3).
C2_LetterResolvesToPosition ==
    ( /\ Resolved
      /\ Len(options) = NumOptions
      /\ api_correct_answer \in LetterAnswers
      /\ \A i \in DOMAIN options : ~LetterPrefixed(options[i]) )
    => correct_answer_full_text
         = options[Ord(api_correct_answer[1]) - Ord("A") + 1]

\* C4: when the raw answer is not verbatim an option, the letter used for
\* the resolution is the first alphabetic character of the raw answer,
\* uppercased: leading non-letters are skipped.
C4_LetterIsFirstAlphabetic ==
    ( /\ Resolved
      /\ ~Contains(options, api_correct_answer)
      /\ HasAlpha(api_correct_answer) )
    => correct_letter = <<UpperChar(FirstAlpha(api_correct_answer))>>

\* C5 as stated: for every 4-option list, the raw answer "Z" resolves to
\* None.
C5_ZResolvesToNone ==
    ( /\ Resolved
      /\ Len(options) = NumOptions
      /\ api_correct_answer = <<"Z">> )
    => correct_answer_full_text = None

\* C5 as amended: for every 4-option list none of whose options, stripped
\* and uppercased, starts with "Z", the raw answer "Z" resolves to None.
C5_ZResolvesToNoneUnlessPrefixed ==
    ( /\ Resolved
      /\ Len(options) = NumOptions
      /\ api_correct_answer = <<"Z">>
      /\ \A i \in DOMAIN options : ~StartsWith(Upper(Strip(options[i])), <<"Z">>) )
    => correct_answer_full_text = None

C5_Witness ==
    /\ Resolved
    /\ Len(options) = NumOptions
    /\ api_correct_answer = <<"Z">>
    /\ \A i \in DOMAIN options : ~StartsWith(Upper(Strip(options[i])), <<"Z">>)
    /\ correct_answer_full_text = None

\* C6: when the raw answer is a single letter that is not verbatim an
\* option and some option's text, stripped and uppercased, starts with that
\* letter, the resolution returns the first such option in list order,
\* whatever option the letter's position designates.
C6_PrefixBeforePosition ==
    ( /\ Resolved
      /\ Len(api_correct_answer) = 1
      /\ IsAlpha(api_correct_answer[1])
      /\ ~Contains(options, api_correct_answer)
      /\ \E i \in DOMAIN options :
            StartsWith(Upper(Strip(options[i])), Upper(api_correct_answer)) )
    => LET hits == {i \in DOMAIN options :
                      StartsWith(Upper(Strip(options[i])), Upper(api_correct_answer))}
       IN  /\ correct_answer_full_text = options[FirstIndex(hits)]
           /\ \A j \in 1..(FirstIndex(hits) - 1) :
                 ~StartsWith(Upper(Strip(options[j])), Upper(api_correct_answer))

\* raw answer "C", "C." is the first option and the third option is another
C6_Witness ==
    /\ Resolved
    /\ api_correct_answer = <<"C">>
    /\ options[1] = <<"C", ".">>
    /\ options[3] = <<"y", "?">>
    /\ correct_answer_full_text = <<"C", ".">>

\* C7: for four distinct options and a raw answer that is one of them
\* verbatim, the resolution returns exactly that option.
C7_ExactMatchWins ==
    ( /\ Resolved
      /\ Len(options) = NumOptions
      /\ Cardinality(OptionSet) = NumOptions
      /\ Contains(options, api_correct_answer) )
    => correct_answer_full_text = api_correct_answer

\* the raw answer "c" is the second option, after "C.", which the letter
\* scan would hit first
C7_Witness ==
    /\ Resolved
    /\ Cardinality(OptionSet) = NumOptions
    /\ options[1] = <<"C", ".">>
    /\ options[2] = <<"c">>
    /\ api_correct_answer = <<"c">>
    /\ correct_answer_full_text = <<"c">>

\* C8: for every options list and every raw answer, the empty one and the
\* ones without a letter included, the resolved answer is None or one of
\* the options, and no exception leaves the resolution.
C8_ResolvedIsOptionOrNone ==
    Resolved =>
        /\ ~resolve_raised
        /\ \/ correct_answer_full_text = None
           \/ correct_answer_full_text \in OptionSet

\* the empty raw answer, and a raw answer without a letter
C8_Witness ==
    /\ Resolved
    /\ ~resolve_raised
    /\ api_correct_answer \in {<<>>, <<" ">>, <<"(">>}
    /\ correct_answer_full_text = None

\* C9: a graded attempt whose answer did not resolve has is_correct False
\* whatever the stored user answer is, None included; and is_correct is
\* True only when the stored answer is an option and equals the resolved
\* one.
C9_UnresolvedIsIncorrect ==
    rpc = "graded" =>
        /\ correct_answer_full_text = None => is_correct = FALSE
        /\ is_correct = TRUE =>
              /\ user_answer \in OptionSet
              /\ user_answer = correct_answer_full_text

\* the label an option is shown with
LabelOf(shown) ==
    CASE shown.prefix = "check" /\ shown.suffix = " (Your Answer - Correct)"
            -> "selected & correct"
      [] shown.prefix = "cross" /\ shown.suffix = " (Your Answer)"
            -> "selected & incorrect"
      [] shown.prefix = "check" /\ shown.suffix = " (Correct Answer)"
            -> "correct but not selected"
      [] shown.prefix = "" /\ shown.suffix = "" -> "plain"

CorrectLabels == {"selected & correct", "correct but not selected"}

\* C20: in the graded view every option gets exactly one of four labels,
\* determined only by (option index, selected index, correct index):
\* 'selected & correct' iff the index equals both, 'selected & incorrect'
\* iff it equals the selected but not the correct index, 'correct but not
\* selected' iff it equals only the correct index, 'plain' otherwise.  So
\* at most one option carries a 'correct' label, and none does when the
\* answer is unresolved.
C20_LabelByIndices ==
    rpc = "graded" =>
        /\ DOMAIN formatted_options = DOMAIN options
        /\ \A k \in DOMAIN options :
              LET idx == k - 1
                  label == LabelOf(formatted_options[k])
              IN  /\ formatted_options[k].option = options[k]
                  /\ label = "selected & correct"
                        <=> (idx = user_index /\ idx = correct_index)
                  /\ label = "selected & incorrect"
                        <=> (idx = user_index /\ idx # correct_index)
                  /\ label = "correct but not selected"
                        <=> (idx # user_index /\ idx = correct_index)
                  /\ label = "plain"
                        <=> (idx # user_index /\ idx # correct_index)
        /\ Cardinality({k \in DOMAIN options :
                           LabelOf(formatted_options[k]) \in CorrectLabels}) <= 1
        /\ correct_answer_full_text = None =>
              \A k \in DOMAIN options :
                  LabelOf(formatted_options[k]) \notin CorrectLabels

\* the second option selected and right, the others plain
C20_Witness ==
    /\ rpc = "graded"
    /\ user_index = 1
    /\ correct_index = 1
    /\ LabelOf(formatted_options[2]) = "selected & correct"
    /\ \A k \in {1, 3, 4} : LabelOf(formatted_options[k]) = "plain"

---------------------------------------------------------------------------
(* Properties of parse_generated_question, under SpecParse *)

Parsed == ppc = "parsed"

TextLines == IF text = NoText THEN <<>> ELSE [i \in DOMAIN text |-> Strip(text[i])]

IsQuestionLine(line) == StartsWithAny(line, QuestionMarkers)

IsAnswerLine(line) ==
    /\ ~IsQuestionLine(line)
    /\ ~IsOptionLine(line)
    /\ StartsWithAny(line, AnswerMarkers)

IsExplanationLine(line) ==
    /\ ~IsQuestionLine(line)
    /\ ~IsOptionLine(line)
    /\ ~IsAnswerLine(line)
    /\ StartsWithAny(line, ExplanationMarkers)

\* a line of no kind: it continues the question or the explanation, or is
\* dropped
IsPlainLine(line) ==
    /\ ~IsQuestionLine(line)
    /\ ~IsOptionLine(line)
    /\ ~IsAnswerLine(line)
    /\ ~IsExplanationLine(line)

\* the lines matching ^[A-D][.):], anywhere in the text
OptionLineCount == Cardinality({i \in DOMAIN TextLines : IsOptionLine(TextLines[i])})

\* some answer line names a letter A-D after its colon
AnswerTokenFound ==
    \E i \in DOMAIN TextLines :
        /\ IsAnswerLine(TextLines[i])
        /\ \E j \in DOMAIN AfterColon(TextLines[i]) :
              UpperChar(AfterColon(TextLines[i])[j]) \in {"A", "B", "C", "D"}

\* the last question line carries text, or a non-empty line of no kind
\* follows it with only such lines and empty lines in between
QuestionTextNonEmpty ==
    \E i \in DOMAIN TextLines :
        /\ IsQuestionLine(TextLines[i])
        /\ \A k \in DOMAIN TextLines : k > i => ~IsQuestionLine(TextLines[k])
        /\ \/ AfterColon(TextLines[i]) # <<>>
           \/ \E j \in DOMAIN TextLines :
                /\ j > i
                /\ TextLines[j] # <<>>
                /\ \A k \in (i + 1)..j : IsPlainLine(TextLines[k])

\* a question line with text, four option lines, an answer line naming a
\* letter A-D
WellFormed ==
    /\ Len(TextLines) = NumOptions + 2
    /\ IsQuestionLine(TextLines[1])
    /\ AfterColon(TextLines[1]) # <<>>
    /\ \A i \in 2..(NumOptions + 1) : IsOptionLine(TextLines[i])
    /\ IsAnswerLine(TextLines[NumOptions + 2])
    /\ \E j \in DOMAIN AfterColon(TextLines[NumOptions + 2]) :
          UpperChar(AfterColon(TextLines[NumOptions + 2])[j]) \in {"A", "B", "C", "D"}

\* C3: parsing a well-formed text block (a question line with text, four
\* option lines, an answer line naming a letter A-D) yields a question
\* with exactly 4 options whose correct_answer the answer resolution
\* resolves to one of those options, not to None.
C3_WellFormedRoundTrip ==
    (Parsed /\ WellFormed) =>
        /\ question_data.kind = "question"
        /\ Len(question_data.options) = NumOptions
        /\ LET r == ResolveAnswer(question_data.options, question_data.correct_answer)
           IN  /\ ~r.raised
               /\ r.value # None
               /\ Contains(question_data.options, r.value)

\* a block whose answer line names B, resolved to the second option
C3_Witness ==
    /\ Parsed
    /\ WellFormed
    /\ question_data.kind = "question"
    /\ question_data.correct_answer = <<"B">>
    /\ question_data.options[2] = <<"y", "?">>
    /\ ResolveAnswer(question_data.options, question_data.correct_answer).value
         = <<"y", "?">>

\* C10: parse_generated_question returns a question record exactly when
\* the scanned text leaves a non-empty question text, holds exactly 4 lines
\* matching ^[A-D][.):] and an answer line with a letter A-D; otherwise it
\* returns None; it never raises.
C10_RecordIffValid ==
    Parsed =>
        /\ ~parse_raised
        /\ question_data.kind \in {"question", "None"}
        /\ question_data.kind = "question"
              <=> ( /\ QuestionTextNonEmpty
                    /\ OptionLineCount = NumOptions
                    /\ AnswerTokenFound )

\* a text with a question and an answer and one option missing, parsed to
\* None
C10_Witness ==
    /\ Parsed
    /\ QuestionTextNonEmpty
    /\ AnswerTokenFound
    /\ OptionLineCount = NumOptions - 1
    /\ question_data.kind = "None"
    /\ ~parse_raised

\* the answer marker the line starts with
MarkerOf(line) == CHOOSE m \in AnswerMarkers : StartsWith(line, m)

\* what follows the marker on an answer line
AfterMarker(line) == SubSeq(line, Len(MarkerOf(line)) + 1, Len(line))

\* the first letter A-D of s, read case-insensitively, as an uppercase
\* str; <<>> when s holds none
FirstLetterAD(s) ==
    LET hits == {i \in DOMAIN s : UpperChar(s[i]) \in {"A", "B", "C", "D"}}
    IN  IF hits = {} THEN <<>> ELSE <<UpperChar(s[FirstIndex(hits)])>>

\* the answer lines of the text
AnswerLines == {i \in DOMAIN TextLines : IsAnswerLine(TextLines[i])}

\* the last answer line
LastAnswerLine == TextLines[CHOOSE i \in AnswerLines : \A j \in AnswerLines : j <= i]

\* the last answer line that names a letter after its marker
LastNamingLine ==
    LET naming == {i \in AnswerLines : FirstLetterAD(AfterMarker(TextLines[i])) # <<>>}
    IN  TextLines[CHOOSE i \in naming : \A j \in naming : j <= i]

\* C11 as stated: the token recorded for an answer line is the first letter
\* A-D found in that line, read case-insensitively.
C11_TokenIsFirstLetterOfLine ==
    (Parsed /\ question_data.kind = "question") =>
        question_data.correct_answer = FirstLetterAD(LastAnswerLine)

\* C11 as amended: the token recorded for an answer line is the first
\* letter A-D found, case-insensitively, in the text that follows the
\* line's marker; an answer line with no such letter after its marker
\* leaves the token as it was.
C11_TokenIsFirstLetterAfterMarker ==
    Parsed =>
        /\ \A i \in AnswerLines, before \in {<<>>, <<"C">>} :
              ParseLine([ParserStart EXCEPT !.correct_answer = before],
                        TextLines[i]).correct_answer
                = IF FirstLetterAD(AfterMarker(TextLines[i])) # <<>>
                  THEN FirstLetterAD(AfterMarker(TextLines[i]))
                  ELSE before
        /\ question_data.kind = "question" =>
              question_data.correct_answer = FirstLetterAD(AfterMarker(LastNamingLine))

\* a block whose answer line is "Answer: xdB", parsed with the token D
C11_Witness ==
    /\ Parsed
    /\ question_data.kind = "question"
    /\ AnswerLines = {NumOptions + 2}
    /\ AfterMarker(TextLines[NumOptions + 2]) = <<" ", "x", "d", "B">>
    /\ question_data.correct_answer = <<"D">>

\* the four option lines are labelled A, B, C, D in that order
LabelledInOrder ==
    \A i \in 1..NumOptions : Head(TextLines[i + 1]) = OptionLabels[i]

\* the letter the answer line names
NamedLetter == FirstLetterAD(AfterMarker(TextLines[NumOptions + 2]))

\* the position of a letter among the labels, from 1
LabelPosition(l) == CHOOSE i \in DOMAIN OptionLabels : <<OptionLabels[i]>> = l

\* the text that follows the label of the i-th option line
TextAfterLabel(i) == Strip(SubSeq(TextLines[i + 1], 3, Len(TextLines[i + 1])))

\* C22: end-to-end grading of a parsed question.  For a text whose four
\* option lines are labelled A, B, C, D in that order and whose answer line
\* names the letter L, the option that grading treats as correct is the
\* option text that followed the label L, options[index of L], whatever the
\* option texts are.
C22_GradesOptionOfNamedLetter ==
    (Parsed /\ WellFormed /\ LabelledInOrder) =>
        /\ question_data.kind = "question"
        /\ ResolveAnswer(question_data.options, question_data.correct_answer).value
             = question_data.options[LabelPosition(NamedLetter)]
        /\ question_data.options[LabelPosition(NamedLetter)]
             = TextAfterLabel(LabelPosition(NamedLetter))

---------------------------------------------------------------------------
(* Properties of the record files, under SpecAnalytics, SpecProgress,
   SpecStats and SpecLoad *)

\* this step is a call of fn
Called(fn) == ncalls' = ncalls + 1 /\ last_call'.fn = fn

\* the sum of the field of the entries of stats
RECURSIVE SumOf(_, _, _)
SumOf(stats, keys, field) ==
    IF keys = {} THEN 0
    ELSE LET k == CHOOSE x \in keys : TRUE
         IN  stats[k][field] + SumOf(stats, keys \ {k}, field)

\* the attempts of the history recorded as correct
CorrectAttempts(history) == Cardinality({i \in DOMAIN history : history[i].correct})

AggregateNames == {"subtopic_stats", "chapter_stats", "subject_stats"}

\* C12: starting from an empty analytics store, after N calls of
\* track_question_attempt the history holds N records and in each of
\* subtopic_stats, chapter_stats and subject_stats the 'total' counters sum
\* to N, the 'correct' counters sum to the number of history records with
\* correct = true, and correct <= total for every key.
C12_AggregatesMatchHistory ==
    IF performance_analytics_file = Missing THEN ncalls = 0
    ELSE LET analytics == performance_analytics_file.data
         IN  /\ Len(analytics.question_history) = ncalls
             /\ \A a \in AggregateNames :
                   /\ SumOf(analytics[a], DOMAIN analytics[a], "total") = ncalls
                   /\ SumOf(analytics[a], DOMAIN analytics[a], "correct")
                        = CorrectAttempts(analytics.question_history)
                   /\ \A k \in DOMAIN analytics[a] :
                         analytics[a][k].correct <= analytics[a][k].total

\* three attempts on two subtopics of one chapter, one of them correct
C12_Witness ==
    /\ performance_analytics_file # Missing
    /\ ncalls = 3
    /\ Len(performance_analytics_file.data.question_history) = 3
    /\ CorrectAttempts(performance_analytics_file.data.question_history) = 1
    /\ DOMAIN performance_analytics_file.data.subtopic_stats = {"Kinematics", "Vectors"}
    /\ performance_analytics_file.data.chapter_stats["Mechanics"]
         = [correct |-> 1, total |-> 3]

\* the ladder of ranks, lowest first
Ladder ==
    <<"Artisan", "Peasant", "Ronin", "Samurai", "Daimyo", "Shogun", "Emperor",
      "Demigod", "Engineer">>

LadderIndex(rank) == CHOOSE i \in DOMAIN Ladder : Ladder[i] = rank

PositiveMultipleOfTen(n) == \E k \in 1..n : n = 10 * k

\* C14: check_for_rank_up promotes the stored rank to the next rank of the
\* ladder and returns its name if and only if total_subtopics_practiced is a
\* positive multiple of 10 and the current rank is not the last; in every
\* other case it returns None and leaves the stored stats unchanged.
C14_RankUpIffEligible ==
    [][ Called("check_for_rank_up") =>
          LET total == user_progress_file.data.total_subtopics_practiced
              rank == user_stats_file.data.rank
          IN  /\ ~last_call'.raised
              /\ user_progress_file' = user_progress_file
              /\ IF PositiveMultipleOfTen(total) /\ rank # "Engineer"
                 THEN /\ last_call'.value = Ladder[LadderIndex(rank) + 1]
                      /\ user_stats_file' =
                           File([user_stats_file.data EXCEPT
                                   !.rank = Ladder[LadderIndex(rank) + 1]])
                 ELSE /\ last_call'.value = "None"
                      /\ user_stats_file' = user_stats_file ]_vars

\* a promotion at 20 subtopics, and above it a call at the top of the ladder
C14_Witness ==
    /\ last_call.fn = "check_for_rank_up"
    /\ last_call.value = "Engineer"
    /\ user_stats_file.data.rank = "Engineer"
    /\ user_progress_file.data.total_subtopics_practiced = 20

\* C15: after any sequence of update_progress calls completed_subtopics
\* holds no duplicates and total_subtopics_practiced is the number of its
\* entries; a call with a subtopic already completed leaves the stored
\* record unchanged.
C15_ProgressCountsDistinct ==
    /\ [](LET progress == user_progress_file.data
          IN  /\ \A i, j \in DOMAIN progress.completed_subtopics :
                    progress.completed_subtopics[i] = progress.completed_subtopics[j]
                        => i = j
              /\ progress.total_subtopics_practiced
                    = Len(progress.completed_subtopics)
              /\ progress.total_subtopics_practiced
                    = Cardinality({progress.completed_subtopics[i] :
                                      i \in DOMAIN progress.completed_subtopics}))
    /\ [][ ( /\ Called("update_progress")
             /\ Contains(user_progress_file.data.completed_subtopics,
                         last_call'.args[1]) )
           => user_progress_file' = user_progress_file ]_vars

\* nine subtopics completed, then one of them and a new one passed
C15_Witness ==
    /\ ncalls = 2
    /\ last_call.fn = "update_progress"
    /\ last_call.args = <<"Kinematics">>
    /\ user_progress_file.data.total_subtopics_practiced = 10
    /\ user_progress_file.data.completed_subtopics[10] = "Matrices"

\* the calendar day of the clock
Today == now \div TicksPerDay

\* C16: update_stats updates daily_streak by the number d of calendar days
\* between last_active_date and today: d = 1 adds exactly 1, d > 1 resets
\* it to 1, d = 0 leaves it; in every case last_active_date becomes today.
\* So a day raises the streak at most once, whatever the time of day of
\* the calls.
C16_StreakByCalendarDays ==
    /\ [][ Called("update_stats") =>
             LET stats == user_stats_file.data
                 d == Today - stats.last_active_date
             IN  /\ ~last_call'.raised
                 /\ user_stats_file'.data.last_active_date = Today
                 /\ d = 1 => user_stats_file'.data.daily_streak = stats.daily_streak + 1
                 /\ d > 1 => user_stats_file'.data.daily_streak = 1
                 /\ d = 0 => user_stats_file'.data.daily_streak = stats.daily_streak
          ]_vars
    /\ [](user_stats_file.data.daily_streak <= Today)

\* C17: each update_stats(is_correct) call raises the stored xp by exactly
\* 10 when is_correct is true and by exactly 5 otherwise, so xp is a
\* non-negative integer that never decreases, and the call leaves username
\* and rank unchanged.
C17_XpGain ==
    /\ [][ Called("update_stats") =>
             /\ ~last_call'.raised
             /\ user_stats_file'.data.xp
                  = user_stats_file.data.xp + (IF last_call'.args[1] THEN 10 ELSE 5)
             /\ user_stats_file'.data.username = user_stats_file.data.username
             /\ user_stats_file'.data.rank = user_stats_file.data.rank ]_vars
    /\ [][user_stats_file'.data.xp >= user_stats_file.data.xp]_vars
    /\ [](user_stats_file.data.xp \in Nat)

\* a correct and a wrong answer: 15 xp
C17_Witness ==
    /\ ncalls = 2
    /\ last_call.fn = "update_stats"
    /\ last_call.args = <<FALSE>>
    /\ user_stats_file.data.xp = 15

StatsKeys ==
    {"username", "xp", "rank", "daily_streak", "last_active_date", "heatmap_data"}

ProgressKeys == {"completed_subtopics", "total_subtopics_practiced"}

\* the documented default that load function fn returns for a file f in
\* the given state (Missing or Corrupt)
ReturnsDefaultFor(fn, f, state) ==
    (last_call.fn = fn /\ f = state) =>
        /\ ~last_call.raised
        /\ CASE fn = "load_user_stats" -> DOMAIN last_call.value = StatsKeys
             [] fn = "load_user_progress" ->
                   /\ DOMAIN last_call.value = ProgressKeys
                   /\ last_call.value.completed_subtopics = <<>>
                   /\ last_call.value.total_subtopics_practiced = 0
             [] fn = "load_saved_questions" -> last_call.value = <<>>
             [] fn = "load_performance_analytics" ->
                   last_call.value =
                       [question_history |-> <<>>, subtopic_stats |-> <<>>,
                        chapter_stats |-> <<>>, subject_stats |-> <<>>]

LoadsReturnDefaultFor(state) ==
    /\ ReturnsDefaultFor("load_user_stats", user_stats_file, state)
    /\ ReturnsDefaultFor("load_user_progress", user_progress_file, state)
    /\ ReturnsDefaultFor("load_saved_questions", saved_questions_file, state)
    /\ ReturnsDefaultFor("load_performance_analytics", performance_analytics_file,
                         state)

\* C18: each load function returns a well-formed default record when its
\* file does not exist (stats with its six keys, progress with an empty
\* list and 0, an empty saved-question list, analytics with an empty
\* history and three empty aggregates), so update_stats, update_progress
\* and check_for_rank_up do not fail on a missing file.
C18_MissingFileGivesDefault ==
    /\ LoadsReturnDefaultFor(Missing)
    /\ (last_call.fn = "update_stats" /\ user_stats_file = Missing)
          => ~last_call.raised
    /\ (last_call.fn = "update_progress" /\ user_progress_file = Missing)
          => ~last_call.raised
    /\ ( /\ last_call.fn = "check_for_rank_up"
         /\ Missing \in {user_progress_file, user_stats_file}
         /\ Corrupt \notin {user_progress_file, user_stats_file} )
          => ~last_call.raised

\* C19: a corrupt record file is recovered like a missing one: every load
\* function returns the documented default instead of raising, and no read
\* failure leaves update_stats, update_progress, check_for_rank_up or
\* track_question_attempt.
C19_CorruptFileGivesDefault ==
    /\ LoadsReturnDefaultFor(Corrupt)
    /\ last_call.fn \in {"update_stats", "update_progress", "check_for_rank_up",
                         "track_question_attempt"}
          => last_call.exception # "JSONDecodeError"

---------------------------------------------------------------------------
(* Properties of finished sessions, under SpecProgress: the calls "Finish
   Forging" makes, app.py 426-427 *)

\* the stored rank's position in the ladder, the lowest rank at 0
RankPosition == LadderIndex(LoadUserStats(user_stats_file).value.rank) - 1

TotalPracticed == LoadUserProgress(user_progress_file).value.total_subtopics_practiced

\* the last call was update_progress for a subtopic completed before it:
\* the name is in the list and is not the one appended last
CompletedAgain ==
    LET completed == LoadUserProgress(user_progress_file).value.completed_subtopics
    IN  /\ last_call.fn = "update_progress"
        /\ ~last_call.raised
        /\ \E i \in 1..(Len(completed) - 1) : completed[i] = last_call.args[1]

\* C21: the rank reflects the cumulative number of completed subtopics.
\* When update_progress was called for a subtopic already completed and the
\* rank's position in the ladder is floor(total_subtopics_practiced / 10),
\* the check_for_rank_up that follows
\* leaves the position within floor(total_subtopics_practiced / 10) and the
\* rank as it is: a session finished for a subtopic already completed never
\* changes the rank.
C21_RankWithinCompleted ==
    [][(/\ CompletedAgain
        /\ RankPosition = TotalPracticed \div 10
        /\ Called("check_for_rank_up"))
       => /\ RankPosition' <= TotalPracticed' \div 10
          /\ LoadUserStats(user_stats_file').value.rank
               = LoadUserStats(user_stats_file).value.rank]_vars

---------------------------------------------------------------------------
(* Properties of a forge session, under SpecSession *)

\* the questions generated so far in the session
GeneratedIds == 1..generated

\* the attempts the analytics file records
RecordedAttempts == LoadPerformanceAnalytics(performance_analytics_file).value.question_history

\* C13: each generated question is tracked at most once.  Whatever the
\* events of the forge view (submit, a run that shows the graded view
\* again, Save Question, Next Question, Back to Dojo, Begin Forging, Finish
\* Forging), update_stats and track_question_attempt have each been called
\* at most once for a question that was generated and submitted, and never
\* for a question that was not submitted.
C13_TrackedAtMostOnce ==
    \A id \in GeneratedIds :
        /\ stats_calls[id] <= 1
        /\ track_calls[id] <= 1
        /\ id \notin submitted_ids => stats_calls[id] = 0 /\ track_calls[id] = 0

\* C13 happens: a first question was tracked and the session left; in a new
\* session on the same subtopic the question at the same index, which has
\* the same key, was submitted, tracked once, shown again by the run of
\* Save Question, and followed by a question not yet submitted and not
\* tracked
C13_Witness ==
    /\ current_view = "forge"
    /\ generated = 3
    /\ question_ids = <<2, 3>>
    /\ submitted_ids = {1, 2}
    /\ stats_calls = <<1, 1, 0>>
    /\ track_calls = <<1, 1, 0>>
    /\ question_tracked = {QuestionKey(selected_subtopic, 0)}
    /\ Len(RecordedAttempts) = 2
    /\ RecordedAttempts[1].subtopic = RecordedAttempts[2].subtopic
    /\ LoadSavedQuestions(saved_questions_file).value = <<questions[1]>>

---------------------------------------------------------------------------
(* Properties of the tracking of graded questions, under SpecGraded *)

\* the sum of the counts of a heatmap
RECURSIVE HeatmapTotal(_, _)
HeatmapTotal(heatmap_data, days) ==
    IF days = {} THEN 0
    ELSE LET d == CHOOSE x \in days : TRUE
         IN  heatmap_data[d] + HeatmapTotal(heatmap_data, days \ {d})

\* stats and analytics agree in the given files
InStep(stats_file, analytics_file) ==
    LET stats == LoadUserStats(stats_file).value
        history == LoadPerformanceAnalytics(analytics_file).value.question_history
    IN  /\ stats.xp = 10 * CorrectAttempts(history)
                        + 5 * (Len(history) - CorrectAttempts(history))
        /\ HeatmapTotal(stats.heatmap_data, DOMAIN stats.heatmap_data) = Len(history)

\* the count of a day in the heatmap of the file, 0 when the day has no entry
HeatmapCount(stats_file, day) ==
    LET heatmap_data == LoadUserStats(stats_file).value.heatmap_data
    IN  IF HasKey(heatmap_data, day) THEN heatmap_data[day] ELSE 0

\* the number of records of the history in the file
HistoryLength(analytics_file) ==
    Len(LoadPerformanceAnalytics(analytics_file).value.question_history)

\* C24: stats and analytics stay in step.  Starting from the default
\* records, after any sequence of graded questions xp = 10 * (history
\* records with correct = true) + 5 * (those with correct = false) and the
\* heatmap counts sum to len(question_history); each graded question adds
\* exactly 1 to today's heatmap entry, created at 1 when absent, and exactly
\* one history record.
C24_StatsAndAnalyticsInStep ==
    [][/\ InStep(user_stats_file', performance_analytics_file')
       /\ IF question_tracked' \ question_tracked # {}
          THEN /\ HeatmapCount(user_stats_file', Today)
                    = HeatmapCount(user_stats_file, Today) + 1
               /\ HistoryLength(performance_analytics_file')
                    = HistoryLength(performance_analytics_file) + 1
          ELSE /\ LoadUserStats(user_stats_file').value.heatmap_data
                    = LoadUserStats(user_stats_file).value.heatmap_data
               /\ HistoryLength(performance_analytics_file')
                    = HistoryLength(performance_analytics_file)]_vars

\* C24 happens: three questions graded on two days, one of them wrong, the
\* second day's entry created and then counted up
C24_Witness ==
    /\ forge_screen = "graded"
    /\ Cardinality(question_tracked) = 3
    /\ HistoryLength(performance_analytics_file) = 3
    /\ LoadUserStats(user_stats_file).value.xp = 25
    /\ Cardinality(DOMAIN LoadUserStats(user_stats_file).value.heatmap_data) = 2
    /\ HeatmapCount(user_stats_file, Today) = 2
    /\ Today = MaxDay
    /\ InStep(user_stats_file, performance_analytics_file)

---------------------------------------------------------------------------
(* Properties of the saved-questions view, under SpecSaved *)

\* the saved question the view shows
SavedQuestion == LoadSavedQuestions(saved_questions_file).value[1]

\* the option texts the view marks as "Correct Answer"
MarkedCorrect ==
    {saved_view[1][i].option : i \in {j \in DOMAIN saved_view[1] : saved_view[1][j].correct}}

\* what the forge grading resolves for the saved question
ForgeResolved == ResolveAnswer(SavedQuestion.options, SavedQuestion.correct_answer).value

\* C23: answer resolution is the same for every caller.  For every saved
\* question (options, correct_answer) the saved-questions view marks as
\* "Correct Answer" exactly the option that the forge grading resolves for
\* the same (options, correct_answer), and marks none when grading resolves
\* None.
C23_SavedViewAgreesWithForge ==
    (forge_screen = "saved_questions" /\ saved_view # <<>>) =>
        MarkedCorrect = IF ForgeResolved = None THEN {} ELSE {ForgeResolved}

---------------------------------------------------------------------------
(* Properties of the timed challenge, under SpecChallenge *)

\* time remains in the challenge
TimeRemains == Remaining(now, challenge_start_time, challenge_time_limit) > 0

\* the forge view shows a question, to answer or graded
QuestionDisplayed == forge_screen \in {"question", "graded"}

\* a step that is a run of show_forge in a challenge with subtopics
\* selected, while time remains, and that leaves the challenge on
ChallengeRunWithTimeLeft ==
    /\ current_view = "forge"
    /\ challenge_mode
    /\ challenge_subtopics # <<>>
    /\ TimeRemains
    /\ now' = now
    /\ challenge_mode'

\* C25: a timed challenge presents its questions.  While challenge_mode is
\* true and time remains, a run of the forge view reaches the question
\* display for challenge_subtopics[current_question_index], so that a
\* challenge question can be submitted and graded and "Finish Challenge" is
\* reachable; and every started challenge ends with challenge_mode = False
\* and current_view = 'dashboard'.  Checked here: the run reaches the
\* question display.
C25_ChallengeRunShowsQuestion ==
    [][ChallengeRunWithTimeLeft => QuestionDisplayed']_vars

\* every challenge started before the last tick of the clock ends with
\* challenge_mode = False and current_view = 'dashboard'
ChallengeEnds ==
    (challenge_mode /\ StrfDate(now + 1) <= MaxDay)
        ~> (~challenge_mode /\ current_view = "dashboard")

\* a challenge never shows a question
ChallengeNeverShowsQuestion == challenge_mode => ~QuestionDisplayed

---------------------------------------------------------------------------
(* Properties of the question generation, under SpecForge *)

\* the environments in which the provider gives no usable question
FailingEnvironment(e) ==
    \/ ~e.library
    \/ e.provider \in {"raises", "no_response"}
    \/ ParseGeneratedQuestion(e.response_text, "any").value.kind = "None"

\* C1: every call of generate_question_from_api (in an installation whose
\* secrets hold the API key) returns a question record with 4 options and
\* raises nothing; when the import, the provider call or
\* the parsing fails the record is the fallback question (answer "A"); so
\* the forge view appends a question and never shows "Failed to generate
\* question".
C1_GenerationNeverBlocks ==
    (gen_env # NoEnv /\ gen_env.secret) =>
        /\ ~gen_result.raised
        /\ gen_result.value.kind = "question"
        /\ Len(gen_result.value.options) = NumOptions
        /\ FailingEnvironment(gen_env) =>
              /\ gen_result.value = CreateFallbackQuestion(gen_result.value.subtopic)
              /\ gen_result.value.correct_answer = <<"A">>
        /\ forge_screen # "generation_failed"

=============================================================================
